---- MODULE Spec2Model ----
(***************************************************************************)
(* Model of the Streamlit teaching dashboards: the trend estimator of      *)
(* students.py, the filter/aggregate/download pass of trial.py, the role   *)
(* detection and per-year reducers of StudentsMain.py and Students_1.py,   *)
(* and the data loading step of every script that reads a file.            *)
(*                                                                         *)
(* Numbers.  A float that is missing is the value NaN below.  The results  *)
(* of divisions are kept exact as fractions [num, den] with den > 0; the   *)
(* fraction with den = 0 is the float NaN.                                 *)
(***************************************************************************)
EXTENDS Integers, Sequences, FiniteSets, TLC

VARIABLES
    \* ---- students.py: one call of compute_trend_line
    x, y, result, tpc,
    \* ---- trial.py: the uploaded file, the widget state kept between
    \* reruns, the last rendered page, and the cache of to_csv_bytes
    up, widgets, page, csv_cache,
    \* ---- StudentsMain.py, Students_1.py, students.py: the deployed script,
    \* the uploaded file, the widget state kept between reruns, and what the
    \* last run left on the screen
    script, csv, controls, screen,
    \* ---- test-3.py: the chart type picked and what the last run showed
    test3,
    \* ---- Stock.py: the sidebar selections, the cache of fetch_prices, and
    \* what the last run showed
    stock,
    \* ---- one call of a helper of trial.py or Stock.py on its own: the
    \* function, its argument and, once it has returned, its result
    call

trendVars == <<x, y, result, tpc>>

trialVars == <<up, widgets, page, csv_cache>>

studentVars == <<script, csv, controls, screen>>

otherVars == <<test3, stock, call>>

vars == <<x, y, result, tpc, up, widgets, page, csv_cache, script, csv, controls, screen,
          test3, stock, call>>

(***************************************************************************)
(* Bounds of the model                                                     *)
(***************************************************************************)
\* longest enumerated (x, y) series handed to compute_trend_line
MaxLen == 3
\* rows of the demo table of test-3.py (20 in the script)
Points == 3
\* trading days of a downloaded price table (Stock.py)
MaxDays == 3
\* most interactions with the sidebar in a session of Stock.py
MaxClicks == 3
\* most rows of an uploaded marks file (trial.py)
MaxRows == 2
\* how far from an end of the marks slider the user drags a handle
SliderReach == 1
\* most rows of an uploaded student table
MaxStudentRows == 2

\* the columns of a file handed to load_csv on its own: at most MaxCols
MaxCols == 3

(***************************************************************************)
(* Floats                                                                  *)
(***************************************************************************)
\* np.nan as an input value: a value outside every input set used below
NaN == -1000000000

isnan(v) == v = NaN

Abs(v) == IF v < 0 THEN 0 - v ELSE v

Sign(v) == IF v < 0 THEN 0 - 1 ELSE IF v > 0 THEN 1 ELSE 0

RECURSIVE GCD(_, _)
\* greatest common divisor of two naturals
GCD(a, b) == IF b = 0 THEN a ELSE GCD(b, a % b)

\* the fraction n/d in lowest terms with a positive denominator (d # 0)
Frac(n, d) ==
    LET g == GCD(Abs(n), Abs(d))
    IN  [num |-> Sign(d) * (n \div g), den |-> Abs(d) \div g]

FNaN == [num |-> 0, den |-> 0]

FInt(v) == IF isnan(v) THEN FNaN ELSE [num |-> v, den |-> 1]

FIsNaN(f) == f.den = 0

\* float comparisons: every comparison with NaN is false
FGt(a, b) == ~FIsNaN(a) /\ ~FIsNaN(b) /\ a.num * b.den > b.num * a.den

FLt(a, b) == ~FIsNaN(a) /\ ~FIsNaN(b) /\ a.num * b.den < b.num * a.den

FEq(a, b) == ~FIsNaN(a) /\ ~FIsNaN(b) /\ a.num * b.den = b.num * a.den

RECURSIVE SumOver(_, _)
\* sum of f[i] over the finite index set S
SumOver(f, S) ==
    IF S = {} THEN 0
    ELSE LET i == CHOOSE j \in S : TRUE
         IN  f[i] + SumOver(f, S \ {i})

(***************************************************************************)
(* students.py: compute_trend_line                                         *)
(***************************************************************************)
\* tol=0.05, the default of compute_trend_line, as the fraction TolNum/TolDen
TolNum == 1
TolDen == 20

tol == [num |-> TolNum, den |-> TolDen]

negtol == [num |-> 0 - TolNum, den |-> TolDen]

\* numpy's defaults rtol=1e-05 and atol=1e-08, in units of 1e-08
CloseScale == 100000000
RtolScaled == 1000
AtolScaled == 1

\* np.isclose(a, b, equal_nan=False) on integer-valued floats:
\* |a - b| <= atol + rtol * |b|, both sides in units of 1e-08.  For an integer
\* d, d * CloseScale <= m is d <= m \div CloseScale.
isclose(a, b) ==
    /\ ~isnan(a)
    /\ ~isnan(b)
    /\ Abs(a - b) <= (AtolScaled + RtolScaled * Abs(b)) \div CloseScale

\* np.allclose(ys, ys[1], equal_nan=False); ys[1] is evaluated first and raises
\* IndexError on an empty array
allclose(ys) == \A i \in 1..Len(ys) : isclose(ys[i], ys[1])

\* the guard of line 39 without its constant-series test
GuardLengthOnly(xs, ys) == IF Len(xs) < 2 THEN "flat" ELSE "continue"

\* line 39: len(x) < 2 or np.allclose(y, y[0]); `or` evaluates its right
\* operand only when the left one is false
GuardOutcome(xs, ys) ==
    IF Len(xs) < 2 THEN "flat"
    ELSE IF Len(ys) = 0 THEN "IndexError"
    ELSE IF allclose(ys) THEN "flat"
    ELSE "continue"

\* line 46: mask = ~np.isnan(x) & ~np.isnan(y), as the set of kept positions
mask(xs, ys) == {i \in 1..Len(xs) : ~isnan(xs[i]) /\ ~isnan(ys[i])}

\* the test of line 47 off by one: mask.sum() < 1
TooFewValidOffByOne(xs, ys) == Cardinality(mask(xs, ys)) < 1

\* line 47: mask.sum() < 2
TooFewValid(xs, ys) == Cardinality(mask(xs, ys)) < 2

\* lines 40-43 and 48-51: the flat result
FlatResult(ys, where) ==
    [raised |-> FALSE, branch |-> where, slope |-> FInt(0),
     y_fit |-> [i \in 1..Len(ys) |-> FNaN], label |-> "Flat"]

\* the classification with inclusive comparisons: slope >= tol, slope <= -tol
LabelInclusive(slope) ==
    IF ~FLt(slope, tol) /\ ~FIsNaN(slope) THEN "Growing"
    ELSE IF ~FGt(slope, negtol) /\ ~FIsNaN(slope) THEN "Falling"
    ELSE "Flat"

\* lines 58-63
Label(slope) ==
    IF FGt(slope, tol) THEN "Growing"
    ELSE IF FLt(slope, negtol) THEN "Falling"
    ELSE "Flat"

\* the sums of a degree-1 least-squares fit over the kept positions
FitN(xs, ys) == Cardinality(mask(xs, ys))
FitSx(xs, ys) == SumOver([i \in 1..Len(xs) |-> xs[i]], mask(xs, ys))
FitSy(xs, ys) == SumOver([i \in 1..Len(xs) |-> ys[i]], mask(xs, ys))
FitSxx(xs, ys) == SumOver([i \in 1..Len(xs) |-> xs[i] * xs[i]], mask(xs, ys))
FitSxy(xs, ys) == SumOver([i \in 1..Len(xs) |-> xs[i] * ys[i]], mask(xs, ys))
FitDet(xs, ys) == FitN(xs, ys) * FitSxx(xs, ys) - FitSx(xs, ys) * FitSx(xs, ys)

\* line 53: np.polyfit(x[mask], y[mask], 1), as the set of coefficient pairs
\* [slope, icpt] it can return; the empty set when it can only raise.
\*  - kept x not all equal: the least-squares line;
\*  - kept x all equal to c # 0: the design matrix has rank 1 and lstsq gives
\*    the minimum-norm solution of the column-scaled system (RankWarning);
\*  - kept x all 0: the column scaling divides 0 by 0 and lstsq runs on NaN;
\*    depending on the LAPACK build it raises LinAlgError or returns NaN.
polyfit(xs, ys) ==
    LET n   == FitN(xs, ys)
        sx  == FitSx(xs, ys)
        sy  == FitSy(xs, ys)
        det == FitDet(xs, ys)
        sl  == n * FitSxy(xs, ys) - sx * sy
        c   == xs[CHOOSE i \in mask(xs, ys) : TRUE]
    IN  IF det # 0
        THEN {[ok |-> TRUE, slope |-> Frac(sl, det),
               icpt |-> Frac(sy * det - sl * sx, n * det)]}
        ELSE IF c # 0
        THEN {[ok |-> TRUE, slope |-> Frac(sy, 2 * n * c),
               icpt |-> Frac(sy, 2 * n)]}
        ELSE {[ok |-> TRUE, slope |-> FNaN, icpt |-> FNaN],
              [ok |-> FALSE, slope |-> FNaN, icpt |-> FNaN]}

\* line 56: np.polyval(coeffs, x) at one x
polyval(co, v) ==
    IF isnan(v) \/ FIsNaN(co.slope) \/ FIsNaN(co.icpt) THEN FNaN
    ELSE LET g == GCD(co.slope.den, co.icpt.den)
             l == (co.slope.den \div g) * co.icpt.den
         IN  Frac(co.slope.num * v * (l \div co.slope.den)
                    + co.icpt.num * (l \div co.icpt.den), l)

Raised == [raised |-> TRUE, branch |-> "raise", slope |-> FNaN,
           y_fit |-> <<>>, label |-> "none"]

\* lines 53-64
FitResult(xs, co) ==
    IF ~co.ok THEN Raised
    ELSE [raised |-> FALSE, branch |-> "fit", slope |-> co.slope,
          y_fit |-> [i \in 1..Len(xs) |-> polyval(co, xs[i])],
          label |-> Label(co.slope)]

\* lines 34-64: the set of outcomes of compute_trend_line(x, y)
compute_trend_line(xs, ys) ==
    LET g == GuardOutcome(xs, ys)
    IN  IF g = "IndexError" THEN {Raised}
        ELSE IF g = "flat" THEN {FlatResult(ys, "guard")}
        ELSE IF TooFewValid(xs, ys) THEN {FlatResult(ys, "mask")}
        ELSE {FitResult(xs, co) : co \in polyfit(xs, ys)}

(***************************************************************************)
(* Inputs of the trend estimator                                           *)
(***************************************************************************)
XVals == {NaN, 0, 1, 20}
YVals == {NaN, 0, 1, 100000, 100001}

RECURSIVE SeqsUpTo(_, _)
\* the sequences over S of length at most n
SeqsUpTo(S, n) ==
    IF n = 0 THEN {<<>>}
    ELSE LET shorter == SeqsUpTo(S, n - 1)
         IN  shorter \cup {Append(s, e) : s \in {t \in shorter : Len(t) = n - 1}, e \in S}

\* the series of section 8 of the specification
ExampleSeries ==
    {[xs |-> <<2000, 2001, 2002, 2003>>, ys |-> <<50, 50, 50, 50>>],
     [xs |-> <<2000, 2001, 2002, 2003>>, ys |-> <<40, 50, 60, 70>>]}

EnumSeries ==
    {[xs |-> [i \in 1..Len(s) |-> s[i][1]], ys |-> [i \in 1..Len(s) |-> s[i][2]]] :
        s \in SeqsUpTo(XVals \X YVals, MaxLen)}

NoResult == [raised |-> FALSE, branch |-> "none", slope |-> FNaN,
             y_fit |-> <<>>, label |-> "none"]

TrendStart ==
    /\ \E s \in EnumSeries \cup ExampleSeries : x = s.xs /\ y = s.ys
    /\ result = NoResult
    /\ tpc = "start"

\* one call compute_trend_line(x, y)
ComputeTrendLine ==
    /\ tpc = "start"
    /\ \E r \in compute_trend_line(x, y) : result' = r
    /\ tpc' = "done"
    /\ UNCHANGED <<x, y>>
    /\ UNCHANGED <<trialVars, studentVars, otherVars>>

(***************************************************************************)
(* Tables and pandas reducers shared by the dashboards                     *)
(***************************************************************************)
\* marks are held in units of 1/MarkScale, so that 2500 stands for 2.5
MarkScale == 1000

\* int(v): truncation toward zero of a mark held in units of 1/MarkScale
int(v) == Sign(v) * (Abs(v) \div MarkScale)

\* the float n/d rounded to an integer, ties to even (d > 0): format specs
\* ".0f", ".1f" and round()
RoundHalfEven(n, d) ==
    LET q == n \div d
        r == n - q * d
    IN  IF 2 * r < d THEN q
        ELSE IF 2 * r > d THEN q + 1
        ELSE IF q % 2 = 0 THEN q ELSE q + 1

\* a missing value of a text column
NaStr == ""

\* the values of text column col that are present, as a set
PresentText(rows, col) == {rows[i][col] : i \in 1..Len(rows)} \ {NaStr}

\* the rows whose text column col is present: groupby drops the other rows
WithKey(rows, col) == SelectSeq(rows, LAMBDA r : r[col] # NaStr)

\* the values of numeric column col that are present, as a set
Present(rows, col) == {rows[i][col] : i \in {j \in 1..Len(rows) : ~isnan(rows[j][col])}}

SetMin(S) == CHOOSE v \in S : \A w \in S : v <= w

SetMax(S) == CHOOSE v \in S : \A w \in S : v >= w

RECURSIVE SortedDescending(_)
\* the numbers of S in descending order
SortedDescending(S) ==
    IF S = {} THEN <<>> ELSE <<SetMax(S)>> \o SortedDescending(S \ {SetMax(S)})

RECURSIVE Sorted(_)
\* the numbers of S in ascending order
Sorted(S) == IF S = {} THEN <<>> ELSE <<SetMin(S)>> \o Sorted(S \ {SetMin(S)})

\* the elements of a sequence, as a set
Range(s) == {s[i] : i \in 1..Len(s)}

\* str.lower() on the column names of the model
lower(c) ==
    CASE c = "Name" -> "name"
      [] c = " Name" -> " name"
      [] c = "Student" -> "student"
      [] c = "Class" -> "class"
      [] c = "Section" -> "section"
      [] c = "Subject" -> "subject"
      [] c = "Marks" -> "marks"
      [] c = "Score" -> "score"
      [] c = "Date" -> "date"
      [] c = "Year" -> "year"
      [] c = "Gender" -> "gender"
      [] c = "Math" -> "math"
      [] c = "Science" -> "science"
      [] OTHER -> c

\* str.strip() on the column names of the model
strip(c) ==
    CASE c = " name" -> "name"
      [] OTHER -> c

\* a lookup that returns nothing
None == "<None>"


\* Series.min() / np.nanmin and Series.max() / np.nanmax: NaN when nothing is present
nanmin(rows, col) == IF Present(rows, col) = {} THEN NaN ELSE SetMin(Present(rows, col))

nanmax(rows, col) == IF Present(rows, col) = {} THEN NaN ELSE SetMax(Present(rows, col))

\* a grouped sum that also counts the missing values of a group
GroupStepCountsMissing(acc, r, keycol, valcol) ==
    LET k   == r[keycol]
        old == IF k \in DOMAIN acc THEN acc[k] ELSE [sum |-> 0, cnt |-> 0]
        new == IF isnan(r[valcol]) THEN [sum |-> old.sum, cnt |-> old.cnt + 1]
               ELSE [sum |-> old.sum + r[valcol], cnt |-> old.cnt + 1]
    IN  [g \in DOMAIN acc \cup {k} |-> IF g = k THEN new ELSE acc[g]]

\* one step of a grouped sum: the row's group is created when first seen, and
\* a value that is present is added to the group's sum and count
GroupStep(acc, r, keycol, valcol) ==
    LET k   == r[keycol]
        old == IF k \in DOMAIN acc THEN acc[k] ELSE [sum |-> 0, cnt |-> 0]
        new == IF isnan(r[valcol]) THEN old
               ELSE [sum |-> old.sum + r[valcol], cnt |-> old.cnt + 1]
    IN  [g \in DOMAIN acc \cup {k} |-> IF g = k THEN new ELSE acc[g]]

RECURSIVE GroupSums(_, _, _)
\* df.groupby(keycol)[valcol] over rows whose key is present: per key, the sum
\* and count of the present values
GroupSums(rows, keycol, valcol) ==
    IF rows = <<>> THEN [g \in {} |-> [sum |-> 0, cnt |-> 0]]
    ELSE GroupStep(GroupSums(SubSeq(rows, 1, Len(rows) - 1), keycol, valcol),
                   rows[Len(rows)], keycol, valcol)

\* df.groupby(keycol)[valcol].mean(): per key the mean of the present values,
\* NaN for a group without any
groupby_mean(rows, keycol, valcol) ==
    LET acc == GroupSums(rows, keycol, valcol)
    IN  [g \in DOMAIN acc |->
            IF acc[g].cnt = 0 THEN FNaN ELSE Frac(acc[g].sum, acc[g].cnt * MarkScale)]

(***************************************************************************)
(* trial.py                                                                *)
(***************************************************************************)
MarksRow(n, c, s, m) == [Name |-> n, Class |-> c, Subject |-> s, Marks |-> m]

\* DEMO_DF, lines 19-42 (the Date column is left out of the model)
DEMO_DF ==
    [cols |-> {"Name", "Class", "Subject", "Marks"},
     rows |-> << MarksRow("Aarav", "10A", "Maths", 88 * MarkScale),
                 MarksRow("Aarav", "10A", "Science", 79 * MarkScale),
                 MarksRow("Aarav", "10A", "English", 92 * MarkScale),
                 MarksRow("Isha", "10A", "Maths", 76 * MarkScale),
                 MarksRow("Isha", "10A", "Science", 71 * MarkScale),
                 MarksRow("Isha", "10A", "English", 84 * MarkScale),
                 MarksRow("Kabir", "10B", "Maths", 90 * MarkScale),
                 MarksRow("Kabir", "10B", "Science", 83 * MarkScale),
                 MarksRow("Kabir", "10B", "English", 78 * MarkScale),
                 MarksRow("Meera", "10B", "Maths", 69 * MarkScale),
                 MarksRow("Meera", "10B", "Science", 74 * MarkScale),
                 MarksRow("Meera", "10B", "English", 81 * MarkScale),
                 MarksRow("Rohan", "10C", "Maths", 95 * MarkScale),
                 MarksRow("Rohan", "10C", "Science", 72 * MarkScale),
                 MarksRow("Rohan", "10C", "English", 68 * MarkScale) >>]

\* line 50: the key of a column in colmap
ColKey(c) == strip(lower(c))

\* line 50: colmap = {c.lower().strip(): c for c in df.columns}, as the
\* sequence of its items: a key stands where it was first inserted and holds
\* the last column that has it
colmap(header) ==
    LET firsts == SelectSeq([i \in 1..Len(header) |-> i],
                            LAMBDA i : \A j \in 1..(i - 1) : ColKey(header[j]) # ColKey(header[i]))
    IN  [n \in 1..Len(firsts) |->
            [key |-> ColKey(header[firsts[n]]),
             orig |-> header[SetMax({j \in 1..Len(header) :
                                        ColKey(header[j]) = ColKey(header[firsts[n]])})]]]

\* lines 53-57: find_col(*cands) over the items cm of colmap: the column of
\* the first item, in the order of colmap, whose key is a candidate
find_col(cm, cands) ==
    LET hits == {n \in 1..Len(cm) : cm[n].key \in cands}
    IN  IF hits = {} THEN None ELSE cm[SetMin(hits)].orig

\* line 82: the known columns, in the order load_csv keeps them
Known == <<"Name", "Class", "Subject", "Marks", "Date">>

\* lines 59-63: the candidates of a known column
Candidates(role) ==
    CASE role = "Name" -> {"name"}
      [] role = "Class" -> {"class", "section"}
      [] role = "Subject" -> {"subject", "course"}
      [] role = "Marks" -> {"marks", "score"}
      [] role = "Date" -> {"date", "exam_date"}

\* lines 59-63: name_c .. date_c: for every known column the column found
\* for it, the known name itself when none is found (Date has no default)
role_columns(header) ==
    LET cm == colmap(header)
    IN  [role \in Range(Known) |->
            LET c == find_col(cm, Candidates(role))
            IN  IF c = None /\ role # "Date" THEN role ELSE c]

\* lines 65-79: the column names after df.rename(columns=rename): the column
\* found for a known column gets the known name, every other column keeps its
\* name, also when it already has a known name
renamed(header) ==
    LET found == role_columns(header)
    IN  [i \in 1..Len(header) |->
            IF \E role \in Range(Known) : found[role] = header[i]
            THEN CHOOSE role \in Range(Known) : found[role] = header[i]
            ELSE header[i]]

\* lines 82-83: keep and df[keep] on the renamed columns: for every known
\* name among them, in the order of Known, all the columns that have that
\* name; the result is the sequence of the positions they had in the file
kept_columns(names) ==
    LET n     == Len(names) + 1
        rank  == {k * n + i : k \in 1..Len(Known), i \in 1..Len(names)}
        order == Sorted({r \in rank : names[r % n] = Known[r \div n]})
    IN  [j \in 1..Len(order) |-> order[j] % n]

\* a missing cell of a kept column: Marks is numeric, the others are text
\* (a date is kept as its text, NaT as the missing text)
MissingCell(name, v) == IF name = "Marks" THEN isnan(v) ELSE v = NaStr

\* lines 85-92: the type cleaning and dropna(how="all") of the table that
\* holds the columns at the positions at of the file, under the names all has
\* for them.  The numeric cells of the model are numbers already, so
\* pd.to_numeric leaves them as they are; with two columns named Marks,
\* df["Marks"] is a table and pd.to_numeric raises TypeError; with two named
\* Date, pd.to_datetime raises ValueError.  A row of the result holds, for a
\* name, the cell of the first column that has it.
type_cleaning(file, all, at) ==
    LET names  == [j \in 1..Len(at) |-> all[at[j]]]
        count(c) == Cardinality({j \in 1..Len(at) : all[at[j]] = c})
        first(c) == file.cols[at[SetMin({j \in 1..Len(at) : all[at[j]] = c})]]
        full   == SelectSeq(file.rows,
                      LAMBDA r : \E j \in 1..Len(at) : ~MissingCell(all[at[j]], r[file.cols[at[j]]]))
    IN  IF count("Marks") > 1
        THEN [raised |-> "TypeError", names |-> <<>>, cols |-> {}, rows |-> <<>>]
        ELSE IF count("Date") > 1
        THEN [raised |-> "ValueError", names |-> <<>>, cols |-> {}, rows |-> <<>>]
        ELSE [raised |-> "",
              names |-> names,
              cols |-> Range(names),
              rows |-> [i \in 1..Len(full) |-> [c \in Range(names) |-> full[i][first(c)]]]]

\* lines 82-92: the rest of load_csv once the columns have the names all
keep_known(file, all) == type_cleaning(file, all, kept_columns(all))

\* lines 45-92: load_csv on a file that parses, [cols, rows] with the column
\* names in file order and the rows as functions from the column names.  The
\* result is the exception raised, if any, and the table returned: its column
\* names in order (names), as a set (cols), and its rows.
load_csv(file) == keep_known(file, renamed(file.cols))

\* lines 95-106: use_data; a file that makes load_csv raise is caught: the
\* message is shown and the demo table is used
use_data(file) ==
    IF file.kind = "none" THEN [df |-> DEMO_DF, msgs |-> <<"info: using demo data">>]
    ELSE IF file.kind = "bad" THEN [df |-> DEMO_DF, msgs |-> <<"error: could not read CSV">>]
    ELSE CHOOSE data \in {
             IF got.raised # ""
             THEN [df |-> DEMO_DF, msgs |-> <<"error: could not read CSV">>]
             ELSE [df |-> [cols |-> got.cols, rows |-> got.rows], msgs |-> <<>>]
             : got \in {load_csv(file)} } : TRUE

\* DataFrame.empty
empty(df) == df.cols = {} \/ df.rows = <<>>

\* line 117
required == {"Name", "Class", "Subject", "Marks"}

\* lines 125-126: the options of the Class and Subjects widgets
classes(df) == PresentText(df.rows, "Class")

subjects(df) == PresentText(df.rows, "Subject")

\* lines 131-132: the ends of the marks slider, in whole marks
min_m(df) == IF Present(df.rows, "Marks") = {} THEN 0 ELSE int(nanmin(df.rows, "Marks"))

max_m(df) == IF Present(df.rows, "Marks") = {} THEN 100 ELSE int(nanmax(df.rows, "Marks"))

\* Series.between(lo, hi, inclusive="neither") on a mark
between_neither(v, lo, hi) == ~isnan(v) /\ lo * MarkScale < v /\ v < hi * MarkScale

\* Series.between(lo, hi, inclusive="both") on a mark; false on NaN
between(v, lo, hi) == ~isnan(v) /\ lo * MarkScale <= v /\ v <= hi * MarkScale

\* lines 136-143: fdf = df.loc[mask].copy(), the rows that pass in source order
filtered(df, class_sel, subj_sel, mark_range) ==
    LET keep(r) == /\ between(r.Marks, mark_range[1], mark_range[2])
                   /\ r.Subject \in subj_sel
                   /\ (class_sel # "All" => r.Class = class_sel)
    IN  SelectSeq(df.rows, keep)

\* a value shown by st.metric: <<>> is the placeholder
Shown(v) == <<v>>

Placeholder == <<>>

\* Series.mean() of the marks that are present
MeanMarks(rows) ==
    LET idx == {i \in 1..Len(rows) : ~isnan(rows[i].Marks)}
    IN  IF idx = {} THEN FNaN
        ELSE Frac(SumOver([i \in 1..Len(rows) |-> rows[i].Marks], idx),
                  Cardinality(idx) * MarkScale)

\* lines 146-154: the four metrics; Avg in tenths (".1f"), Highest and Lowest
\* in whole marks (".0f")
KPIs(fdf) ==
    IF fdf = <<>>
    THEN [rows |-> 0, avg |-> Placeholder, highest |-> Placeholder, lowest |-> Placeholder]
    ELSE [rows |-> Len(fdf),
          avg |-> LET m == MeanMarks(fdf)
                  IN  IF FIsNaN(m) THEN Placeholder
                      ELSE Shown(RoundHalfEven(m.num * 10, m.den)),
          highest |-> IF isnan(nanmax(fdf, "Marks")) THEN Placeholder
                      ELSE Shown(RoundHalfEven(nanmax(fdf, "Marks"), MarkScale)),
          lowest |-> IF isnan(nanmin(fdf, "Marks")) THEN Placeholder
                     ELSE Shown(RoundHalfEven(nanmin(fdf, "Marks"), MarkScale))]

\* lines 165-171: the bars of Average Marks by Subject (none when fdf is empty)
avg_by_subj(fdf) == groupby_mean(WithKey(fdf, "Subject"), "Subject", "Marks")

\* lines 173-184: the bars of Top Students; head(10) keeps every student of
\* the tables of the model, which hold fewer than ten
top_students(fdf) == groupby_mean(WithKey(fdf, "Name"), "Name", "Marks")

\* DataFrame.to_csv(index=False): the header line, then one line per row; a
\* missing mark is an empty field, a mark is printed with its fraction
CsvField(v) == IF isnan(v) THEN <<>> ELSE <<v \div MarkScale, v % MarkScale>>

to_csv(rows) ==
    <<"Name,Class,Subject,Marks">>
        \o [i \in 1..Len(rows) |->
               <<rows[i].Name, rows[i].Class, rows[i].Subject, CsvField(rows[i].Marks)>>]

\* st.cache_data keys an entry by the function and by its hashed arguments,
\* and does not hash a parameter whose name starts with an underscore:
\* to_csv_bytes(_df) has a single cache entry, whatever _df is.
\* lines 200-202: the cache key of the call to_csv_bytes(fdf)
CacheKey(rows) == <<"to_csv_bytes">>

\* lines 200-209: the memoized call; returns the bytes and the new cache
to_csv_bytes(cache, rows) ==
    IF CacheKey(rows) \in DOMAIN cache
    THEN [bytes |-> cache[CacheKey(rows)], cache |-> cache]
    ELSE [bytes |-> to_csv(rows),
          cache |-> [k \in DOMAIN cache \cup {CacheKey(rows)} |->
                        IF k = CacheKey(rows) THEN to_csv(rows) ELSE cache[k]]]

NoWidgets ==
    [rendered |-> FALSE, class_opts |-> {}, class_sel |-> "All",
     subj_opts |-> {}, subj_sel |-> {}, lo |-> 0, hi |-> 0, mark_range |-> <<0, 0>>]

BlankPage(why, msgs, df) ==
    [stopped |-> why, msgs |-> msgs, df |-> df, fdf |-> <<>>,
     kpi |-> KPIs(<<>>), avg_by_subj |-> <<>>, top_students |-> <<>>,
     charts |-> FALSE, download |-> <<>>]

\* lines 123-133: the widgets of a pass.  A widget keeps the value the user
\* gave it as long as it is rendered with the same options; rendered with
\* other options, or after a pass that did not render it, it shows its default.
Widgets(df, w) ==
    LET cl == classes(df)
        su == subjects(df)
        lo == min_m(df)
        hi == max_m(df)
    IN  [rendered |-> TRUE,
         class_opts |-> cl,
         class_sel |-> IF w.rendered /\ w.class_opts = cl THEN w.class_sel ELSE "All",
         subj_opts |-> su,
         subj_sel |-> IF w.rendered /\ w.subj_opts = su THEN w.subj_sel ELSE su,
         lo |-> lo,
         hi |-> hi,
         mark_range |-> IF w.rendered /\ w.lo = lo /\ w.hi = hi
                        THEN w.mark_range ELSE <<lo, hi>>]

\* lines 109-209: one run of the script, for the file in the uploader, the
\* widget state w left by the pass before and the cache of to_csv_bytes
RenderPass(file, w, cache) ==
    CHOOSE pass \in {
        LET df == src.df
        IN  IF empty(df)
            THEN [page |-> BlankPage("empty", src.msgs \o <<"warning: no data rows">>, df),
                  widgets |-> NoWidgets, cache |-> cache]
            ELSE IF required \ df.cols # {}
            THEN [page |-> BlankPage("missing", src.msgs \o <<"error: missing required columns">>, df),
                  widgets |-> NoWidgets, cache |-> cache]
            ELSE LET ws  == Widgets(df, w)
                     fdf == filtered(df, ws.class_sel, ws.subj_sel, ws.mark_range)
                     dl  == to_csv_bytes(cache, fdf)
                 IN  [page |-> [stopped |-> "no",
                                msgs |-> IF fdf = <<>>
                                         THEN src.msgs \o <<"info: no data for the current filters">>
                                         ELSE src.msgs,
                                df |-> df,
                                fdf |-> fdf,
                                kpi |-> KPIs(fdf),
                                avg_by_subj |-> IF fdf = <<>> THEN <<>> ELSE avg_by_subj(fdf),
                                top_students |-> IF fdf = <<>> THEN <<>> ELSE top_students(fdf),
                                charts |-> fdf # <<>>,
                                download |-> dl.bytes],
                      widgets |-> ws,
                      cache |-> dl.cache]
        : src \in {use_data(file)} } : TRUE

\* the rows of the uploaded files of the model: fractional, negative and
\* missing marks among them
RowVals ==
    {MarksRow("Aarav", "10A", "Maths", 2500),
     MarksRow("Isha", "10B", "Science", 1000),
     MarksRow("Aarav", "10A", "Science", 0 - 1500),
     MarksRow("Isha", "10B", "Maths", NaN)}

NoFile == [kind |-> "none", cols |-> <<>>, rows |-> <<>>]

\* a file pd.read_csv cannot parse
BadFile == [kind |-> "bad", cols |-> <<>>, rows |-> <<>>]

\* the files a user can upload: unreadable, without a Marks column, or a
\* marks table of at most MaxRows rows
Files ==
    {BadFile}
        \cup {[kind |-> "csv", cols |-> <<"Name", "Class", "Subject">>, rows |-> <<r>>] :
                 r \in RowVals}
        \cup {[kind |-> "csv", cols |-> <<"Name", "Class", "Subject", "Marks">>, rows |-> rs] :
                 rs \in SeqsUpTo(RowVals, MaxRows)}

\* the positions a user can give the two handles of the marks slider
SliderPicks(lo, hi) ==
    {<<a, b>> \in (lo..hi) \X (lo..hi) :
        /\ a <= b
        /\ (a - lo <= SliderReach \/ hi - a <= SliderReach)
        /\ (b - lo <= SliderReach \/ hi - b <= SliderReach)}

\* the first run of the script in a fresh server: nothing uploaded, nothing cached
TrialStart ==
    \E first \in {RenderPass(NoFile, NoWidgets, <<>>)} :
        /\ up = NoFile
        /\ widgets = first.widgets
        /\ page = first.page
        /\ csv_cache = first.cache

\* a rerun of the script after the user changed the uploader or a widget
Rerun(file, w) ==
    \E pass \in {RenderPass(file, w, csv_cache)} :
        /\ up' = file
        /\ widgets' = pass.widgets
        /\ page' = pass.page
        /\ csv_cache' = pass.cache
        /\ UNCHANGED <<trendVars, studentVars, otherVars>>

UploadFile == \E f \in Files : f # up /\ Rerun(f, widgets)

RemoveFile == up # NoFile /\ Rerun(NoFile, widgets)

ChangeClass ==
    /\ widgets.rendered
    /\ \E c \in {"All"} \cup widgets.class_opts :
         c # widgets.class_sel /\ Rerun(up, [widgets EXCEPT !.class_sel = c])

ChangeSubjects ==
    /\ widgets.rendered
    /\ \E s \in SUBSET widgets.subj_opts :
         s # widgets.subj_sel /\ Rerun(up, [widgets EXCEPT !.subj_sel = s])

ChangeMarkRange ==
    /\ widgets.rendered
    /\ \E r \in SliderPicks(widgets.lo, widgets.hi) :
         r # widgets.mark_range /\ Rerun(up, [widgets EXCEPT !.mark_range = r])

(***************************************************************************)
(* Student tables (StudentsMain.py, Students_1.py, students.py)            *)
(*                                                                         *)
(* An uploaded table is [cols, rows]: the column names in file order and   *)
(* the rows, each a function from the column names to values.  Text        *)
(* columns hold strings, numeric columns hold marks in units of            *)
(* 1/MarkScale, years, or NaN.                                             *)
(***************************************************************************)
\* the column names of the tables of the model whose dtype is numeric
NumericNames == {"Year", "year", "class_year", "sex", "Math", "Science"}

\* {c.lower(): c for c in df.columns}: a later column replaces an earlier one
\* with the same lowercase name
ColsByLower(cols) ==
    [k \in {lower(cols[i]) : i \in 1..Len(cols)} |->
        cols[SetMax({i \in 1..Len(cols) : lower(cols[i]) = k})]]

RECURSIVE LastCandidate(_, _)
\* the column of the last candidate that names a column
LastCandidate(bylower, cands) ==
    IF cands = <<>> THEN None
    ELSE IF LastCandidate(bylower, Tail(cands)) # None THEN LastCandidate(bylower, Tail(cands))
    ELSE IF Head(cands) \in DOMAIN bylower THEN bylower[Head(cands)]
    ELSE None

\* next((cols[k] for k in cands if k in cols), None)
RECURSIVE FirstCandidate(_, _)
FirstCandidate(bylower, cands) ==
    IF cands = <<>> THEN None
    ELSE IF Head(cands) \in DOMAIN bylower THEN bylower[Head(cands)]
    ELSE FirstCandidate(bylower, Tail(cands))

\* df.select_dtypes(include=["number"]).columns, in file order
numeric_cols(cols) == SelectSeq(cols, LAMBDA c : c \in NumericNames)

\* StudentsMain.py line 13
RESERVED_COLS == {"StudentID", "Name", "Student", "Batch", "Class", "Year", "Gender"}

\* StudentsMain.py lines 20-21: the numeric columns whose name is not reserved
SubjectCols(cols) == SelectSeq(numeric_cols(cols), LAMBDA c : c \notin RESERVED_COLS)

\* StudentsMain.py lines 15-22: detect_columns
detect_columns(cols) ==
    [name_col |-> FirstCandidate(ColsByLower(cols), <<"name", "student", "student_name">>),
     year_col |-> FirstCandidate(ColsByLower(cols), <<"year", "class_year", "grade_year">>),
     gender_col |-> FirstCandidate(ColsByLower(cols), <<"gender", "sex">>),
     subject_cols |-> SubjectCols(cols)]

\* Students_1.py line 27
reserved == {"studentid", "name", "student", "batch", "class", "year", "gender", "sex"}

\* Students_1.py lines 21-29: the key columns and the subject columns
detect_columns_1(cols) ==
    [name_col |-> FirstCandidate(ColsByLower(cols), <<"name", "student">>),
     year_col |-> FirstCandidate(ColsByLower(cols), <<"year">>),
     gender_col |-> FirstCandidate(ColsByLower(cols), <<"gender", "sex">>),
     subject_cols |-> SelectSeq(numeric_cols(cols), LAMBDA c : lower(c) \notin reserved)]

\* students.py line 8
RESERVED_COLS_S == {"StudentID", "Name", "Batch", "Class", "Year", "Gender"}

\* students.py lines 21-24: detect_subject_columns
detect_subject_columns(cols) ==
    SelectSeq(numeric_cols(cols), LAMBDA c : c \notin RESERVED_COLS_S)

\* StudentsMain.py lines 129-132 and Students_1.py lines 37-39: the rows whose
\* year is present (the years of the model are whole numbers)
clean_year(rows, year_col) == SelectSeq(rows, LAMBDA r : ~isnan(r[year_col]))

\* df.dropna(subset=[col]) on a numeric column
dropna(rows, col) == SelectSeq(rows, LAMBDA r : ~isnan(r[col]))

\* the numeric columns that hold whole numbers (years, codes); the others
\* hold marks in units of 1/MarkScale
WholeNames == {"Year", "year", "class_year", "sex"}

\* the value of a numeric column in units of 1/MarkScale
Units(col, v) == IF isnan(v) THEN NaN ELSE IF col \in WholeNames THEN v * MarkScale ELSE v

\* the value of a numeric column as a float
FMark(col, v) == IF isnan(v) THEN FNaN ELSE Frac(Units(col, v), MarkScale)

\* DataFrame[cols].mean(axis=1) of one row: the mean of the row's present
\* values, NaN when none is present
RowMean(r, cols) ==
    LET have == {i \in 1..Len(cols) : ~isnan(r[cols[i]])}
    IN  IF have = {} THEN FNaN
        ELSE Frac(SumOver([i \in 1..Len(cols) |-> Units(cols[i], r[cols[i]])], have),
                  Cardinality(have) * MarkScale)

\* df[col] = vals: the table with the column col holding vals, every other
\* column as it was; a column already named col is replaced
assign(rows, col, vals) ==
    [i \in 1..Len(rows) |->
        [c \in DOMAIN rows[i] \cup {col} |-> IF c = col THEN vals[i] ELSE rows[i][c]]]

\* StudentsMain.py lines 24-26 and 135-136: the _OverallPct of every row
overall_percentage(rows, subject_cols) == [i \in 1..Len(rows) |-> RowMean(rows[i], subject_cols)]

\* the floats of the column a reducer works on: _OverallPct or a subject
ValueColumn(rows, pct, col) ==
    [i \in 1..Len(rows) |-> IF col = "_OverallPct" THEN pct[i] ELSE FMark(col, rows[i][col])]

\* Series.idxmax(): the position of the last largest present value among idx
idxmaxLast(vals, idx) ==
    LET have == {i \in idx : ~FIsNaN(vals[i])}
        tops == {i \in have : \A j \in have : ~FGt(vals[j], vals[i])}
    IN  IF have = {} THEN 0 ELSE SetMax(tops)

\* Series.idxmax(): the position of the first largest present value among the
\* positions idx; 0 when none is present (idxmax then gives NaN, or raises)
idxmax(vals, idx) ==
    LET have == {i \in idx : ~FIsNaN(vals[i])}
        tops == {i \in have : \A j \in have : ~FGt(vals[j], vals[i])}
    IN  IF have = {} THEN 0 ELSE SetMin(tops)

\* the years of the rows, ascending: the group keys of groupby(year_col)
Years(rows, year_col) == Sorted({rows[i][year_col] : i \in 1..Len(rows)})

\* StudentsMain.py lines 39-47: topper_by_year(df, year_col, name_col,
\* value_col) over rows whose years are present; pct is the _OverallPct column
\* of the rows.  The result is the table sorted by year, or the exception
\* raised by the first group, in year order, whose pick_top fails:
\*   - keeps tells whether groupby.apply hands the grouping column to pick_top
\*     (pandas before 3.0) or not (pandas 3.0).  When it does, a table without
\*     rows comes back with the year column already in it and reset_index
\*     raises ValueError; when it does not, g[value_col] raises KeyError for
\*     a value column that is the year column;
\*   - a year without any present value: idxmax gives NaN and g.loc raises
\*     KeyError (pandas before 3.0), or idxmax raises ValueError (pandas 3.0);
\*   - row[name_col] raises KeyError when name_col is None.
topper_by_year(keeps, rows, year_col, name_col, value_col, pct) ==
    LET years   == Years(rows, year_col)
        vals    == ValueColumn(rows, pct, value_col)
        grp(yr) == {i \in 1..Len(rows) : rows[i][year_col] = yr}
        top(yr) == idxmax(vals, grp(yr))
        bad     == {k \in 1..Len(years) : top(years[k]) = 0 \/ name_col = None}
    IN  IF rows = <<>>
        THEN [raised |-> IF keeps THEN "ValueError" ELSE "", table |-> <<>>]
        ELSE IF value_col = year_col /\ ~keeps
        THEN [raised |-> "KeyError", table |-> <<>>]
        ELSE IF bad # {}
        THEN [raised |-> IF top(years[SetMin(bad)]) = 0 /\ ~keeps THEN "ValueError" ELSE "KeyError",
              table |-> <<>>]
        ELSE [raised |-> "",
              table |-> [k \in 1..Len(years) |->
                            [Year |-> years[k],
                             Top |-> rows[top(years[k])][name_col],
                             Score |-> vals[top(years[k])]]]]

\* round(2) of a float
round2(f) == IF FIsNaN(f) THEN FNaN ELSE Frac(RoundHalfEven(f.num * 100, f.den), 100)

\* Students_1.py lines 48-54: per_year_toppers_subject over rows whose years
\* and subject values are present
per_year_toppers_subject(rows, year_col, name_col, subject_col) ==
    LET years   == Years(rows, year_col)
        vals    == [i \in 1..Len(rows) |-> FMark(subject_col, rows[i][subject_col])]
        grp(yr) == {i \in 1..Len(rows) : rows[i][year_col] = yr}
        top(yr) == idxmax(vals, grp(yr))
    IN  [k \in 1..Len(years) |->
            [Year |-> years[k],
             Top |-> rows[top(years[k])][name_col],
             Score |-> round2(vals[top(years[k])])]]

\* groupby(keys)[col].mean().reset_index(): reset_index raises ValueError
\* ("cannot insert, already exists") when col is one of the grouping columns
reset_index_fails(keys, col) == col \in keys

\* the yearly mean of a column: groupby(year_col)[col].mean().reset_index()
\* .sort_values(year_col); rows with a missing year form no group
yearly_mean(rows, year_col, col) ==
    LET kept  == clean_year(rows, year_col)
        means == groupby_mean([i \in 1..Len(kept) |->
                                  [key |-> kept[i][year_col],
                                   val |-> Units(col, kept[i][col])]], "key", "val")
        years == Sorted(DOMAIN means)
    IN  [k \in 1..Len(years) |-> [Year |-> years[k], Average |-> means[years[k]]]]

\* the placeholder option of the selectboxes
PickNone == "-- None --"

\* str order of the student names and genders of the model
TextOrder == <<"Asha", "Ben", "Female", "Male", "0", "1">>

\* sorted(S)[0] for a set of strings of the model
FirstSorted(S) == TextOrder[SetMin({i \in 1..Len(TextOrder) : TextOrder[i] \in S})]

\* Series.astype(str) on the values of a column
astype_str(col, v) ==
    IF col \in NumericNames THEN (IF v = 0 THEN "0" ELSE IF v = 1 THEN "1" ELSE "number")
    ELSE v

\* sorted(df[col].dropna().astype(str).unique()), as a set
unique_str(rows, col) ==
    IF col \in NumericNames THEN {astype_str(col, v) : v \in Present(rows, col)}
    ELSE PresentText(rows, col)

\* DataFrame.sort_values(year_col): ascending years, rows with a missing
\* year last, rows of one year in source order
sort_by_year(rows, year_col) ==
    LET years == Years(clean_year(rows, year_col), year_col)
        RECURSIVE Cat(_)
        Cat(k) == IF k > Len(years) THEN <<>>
                  ELSE SelectSeq(rows, LAMBDA r : r[year_col] = years[k]) \o Cat(k + 1)
    IN  Cat(1) \o SelectSeq(rows, LAMBDA r : isnan(r[year_col]))

\* the rows of one student or gender: df[df[col].astype(str) == who]
rows_of(rows, col, who) == SelectSeq(rows, LAMBDA r : astype_str(col, r[col]) = who)

\* groupby([year_col, gender_col])[col].mean(): the mean of a column per
\* (year, gender) pair; rows with a missing year form no group
pair_mean(rows, year_col, gender_col, col) ==
    LET kept == clean_year(rows, year_col)
    IN  groupby_mean([i \in 1..Len(kept) |->
                         [key |-> <<kept[i][year_col],
                                    astype_str(gender_col, kept[i][gender_col])>>,
                          val |-> Units(col, kept[i][col])]], "key", "val")

\* the widget state of a student dashboard between reruns: the view radio,
\* the first selectbox of the view (student or gender) and the second (metric
\* or subject) with the options they were rendered with, the multiselect of
\* subjects, and the checkbox or Yes/No box
NoControls ==
    [rendered |-> FALSE, mode |-> "Students", a |-> PickNone, a_opts |-> {},
     b |-> PickNone, b_opts |-> {}, multi |-> {}, multi_opts |-> {}, flag |-> FALSE]

\* the widgets of a pass that rendered the view radio only
ModeOnly(mode) == [NoControls EXCEPT !.rendered = TRUE, !.mode = mode]

\* the value a widget shows: the user's value while the widget was rendered in
\* the previous pass with the same options, its default otherwise
Kept(ctl, mode, val, opts, now, default) ==
    IF ctl.rendered /\ ctl.mode = mode /\ opts = now /\ val \in now THEN val ELSE default

\* the view radio: the user's choice while it was rendered in the previous pass
KeptMode(ctl) == IF ctl.rendered THEN ctl.mode ELSE "Students"

NoRoles == [name_col |-> None, year_col |-> None, gender_col |-> None, subject_cols |-> <<>>]

\* what a pass of a student dashboard leaves on the screen: the exception
\* nothing caught if any, why the pass stopped (st.stop()) if it did, the
\* messages shown, the detected roles, the table the views work on with its
\* derived column, and the sections rendered, in order
StudentPage(exc, why, msgs, roles, rows, pct, sections) ==
    [exception |-> exc, stopped |-> why, msgs |-> msgs, roles |-> roles,
     df |-> rows, pct |-> pct, sections |-> sections]

\* a pass that stops before any table is there
NoTablePage(exc, why, msgs) == StudentPage(exc, why, msgs, NoRoles, <<>>, <<>>, <<>>)

\* the sections of a view run in order until one raises: todo is the sequence
\* of [name, raised, data]
RunSections(msgs, roles, rows, pct, todo) ==
    LET bad == {i \in 1..Len(todo) : todo[i].raised # ""}
        n   == IF bad = {} THEN Len(todo) ELSE SetMin(bad) - 1
    IN  StudentPage(IF bad = {} THEN "" ELSE todo[SetMin(bad)].raised, "", msgs, roles,
                    rows, pct,
                    [i \in 1..n |-> [name |-> todo[i].name, data |-> todo[i].data]])

Section(name, raised, data) == [name |-> name, raised |-> raised, data |-> data]

\* a topper table as a section
TopperSection(name, t) == Section(name, t.raised, t.table)

(***************************************************************************)
(* StudentsMain.py                                                         *)
(***************************************************************************)
\* lines 117-126: the warning that lists the roles not found; the pass goes on
missing_bits(roles) ==
    roles.name_col = None \/ roles.year_col = None \/ roles.subject_cols = <<>>

\* lines 159-166: the chart of one student: a point per row of the student,
\* by year
student_series(rows, pct, roles, student, plot_col) ==
    LET vals == ValueColumn(rows, pct, plot_col)
        mine == sort_by_year([i \in 1..Len(rows) |-> [yr |-> rows[i][roles.year_col],
                                                      who |-> astype_str(roles.name_col, rows[i][roles.name_col]),
                                                      val |-> vals[i]]], "yr")
        pts  == SelectSeq(mine, LAMBDA p : p.who = student)
    IN  [k \in 1..Len(pts) |-> [Year |-> pts[k].yr, Value |-> pts[k].val]]

\* lines 145-178: the Students view
StudentsView(keeps, roles, msgs, rows, pct, ctl) ==
    IF roles.name_col = None \/ roles.year_col = None \/ roles.subject_cols = <<>>
    THEN [screen |-> StudentPage("", "view error",
                                 Append(msgs, "error: Students view needs a name column, a Year column, and numeric subject columns"),
                                 roles, rows, pct, <<>>),
          controls |-> ModeOnly("Students")]
    ELSE
    LET all_students == {PickNone} \cup unique_str(rows, roles.name_col)
        metrics == {PickNone, "Overall Percentage"} \cup Range(roles.subject_cols)
        student == Kept(ctl, "Students", ctl.a, ctl.a_opts, all_students, PickNone)
        metric_choice == Kept(ctl, "Students", ctl.b, ctl.b_opts, metrics, PickNone)
        now == [ModeOnly("Students") EXCEPT !.a = student, !.a_opts = all_students,
                                            !.b = metric_choice, !.b_opts = metrics]
        plot_col == IF metric_choice = "Overall Percentage" THEN "_OverallPct" ELSE metric_choice
        chart == Section("chart", "", student_series(rows, pct, roles, student, plot_col))
        overall == TopperSection("toppers_overall",
                       topper_by_year(keeps, rows, roles.year_col, roles.name_col, "_OverallPct", pct))
        bysubj == TopperSection("toppers_subject",
                       topper_by_year(keeps, dropna(rows, metric_choice), roles.year_col,
                                      roles.name_col, metric_choice, <<>>))
    IN  IF student = PickNone
        THEN [screen |-> StudentPage("", "prompt", Append(msgs, "info: Select a student in the sidebar to continue"),
                                     roles, rows, pct, <<>>),
              controls |-> now]
        ELSE IF metric_choice = PickNone
        THEN [screen |-> StudentPage("", "prompt", Append(msgs, "info: Select Overall Percentage or a Subject to see a plot"),
                                     roles, rows, pct, <<>>),
              controls |-> now]
        ELSE [screen |-> RunSections(msgs, roles, rows, pct,
                             IF metric_choice = "Overall Percentage"
                             THEN <<chart, overall>> ELSE <<chart, overall, bysubj>>),
              controls |-> now]

\* lines 189-195: the chart of the yearly mean of a subject
mean_chart(rows, keys, year_col, subject) ==
    IF reset_index_fails(keys, subject) THEN Section("chart", "ValueError", <<>>)
    ELSE Section("chart", "", yearly_mean(rows, year_col, subject))

\* lines 180-204: the Subjects view
SubjectsView(keeps, roles, msgs, rows, pct, ctl) ==
    IF roles.year_col = None \/ roles.subject_cols = <<>>
    THEN [screen |-> StudentPage("", "view error",
                                 Append(msgs, "error: Subjects view needs a Year column and numeric subject columns"),
                                 roles, rows, pct, <<>>),
          controls |-> ModeOnly("Subjects")]
    ELSE
    LET opts    == {PickNone} \cup Range(roles.subject_cols)
        subject == Kept(ctl, "Subjects", ctl.b, ctl.b_opts, opts, PickNone)
        now     == [ModeOnly("Subjects") EXCEPT !.b = subject, !.b_opts = opts]
        bysubj  == TopperSection("toppers_subject",
                       topper_by_year(keeps, dropna(rows, subject), roles.year_col,
                                      roles.name_col, subject, <<>>))
        overall == TopperSection("toppers_overall",
                       topper_by_year(keeps, rows, roles.year_col, roles.name_col, "_OverallPct", pct))
    IN  IF subject = PickNone
        THEN [screen |-> StudentPage("", "prompt", Append(msgs, "info: Select a subject in the sidebar to continue"),
                                     roles, rows, pct, <<>>),
              controls |-> now]
        ELSE [screen |-> RunSections(msgs, roles, rows, pct,
                             <<mean_chart(rows, {roles.year_col}, roles.year_col, subject),
                               bysubj, overall>>),
              controls |-> now]

\* lines 219-238: the chart that compares the genders
compare_chart(rows, roles, subject) ==
    IF reset_index_fails({roles.year_col, roles.gender_col}, subject)
    THEN Section("chart", "ValueError", <<>>)
    ELSE Section("chart", "", pair_mean(rows, roles.year_col, roles.gender_col, subject))

\* lines 206-273: the Gender view
GenderView(keeps, roles, msgs, rows, pct, ctl) ==
    IF roles.gender_col = None \/ roles.year_col = None \/ roles.subject_cols = <<>>
    THEN [screen |-> StudentPage("", "view error",
                                 Append(msgs, "error: Gender view needs Gender, Year and numeric subject columns"),
                                 roles, rows, pct, <<>>),
          controls |-> ModeOnly("Gender")]
    ELSE
    LET genders == {PickNone} \cup unique_str(rows, roles.gender_col)
        opts    == {PickNone} \cup Range(roles.subject_cols)
        selected_gender == Kept(ctl, "Gender", ctl.a, ctl.a_opts, genders, PickNone)
        subject == Kept(ctl, "Gender", ctl.b, ctl.b_opts, opts, PickNone)
        compare == ctl.rendered /\ ctl.mode = "Gender" /\ ctl.flag
        now     == [ModeOnly("Gender") EXCEPT !.a = selected_gender, !.a_opts = genders,
                                              !.b = subject, !.b_opts = opts, !.flag = compare]
        bysubj  == TopperSection("toppers_subject",
                       topper_by_year(keeps, dropna(rows, subject), roles.year_col,
                                      roles.name_col, subject, <<>>))
        overall == TopperSection("toppers_overall",
                       topper_by_year(keeps, rows, roles.year_col, roles.name_col, "_OverallPct", pct))
    IN  IF subject = PickNone
        THEN [screen |-> StudentPage("", "prompt", Append(msgs, "info: Select a subject in the sidebar to continue"),
                                     roles, rows, pct, <<>>),
              controls |-> now]
        ELSE IF compare
        THEN [screen |-> RunSections(msgs, roles, rows, pct,
                             <<compare_chart(rows, roles, subject), bysubj, overall>>),
              controls |-> now]
        ELSE IF selected_gender = PickNone
        THEN [screen |-> StudentPage("", "prompt", Append(msgs, "info: Select a gender or enable Compare"),
                                     roles, rows, pct, <<>>),
              controls |-> now]
        ELSE [screen |-> RunSections(msgs, roles, rows, pct,
                             <<mean_chart(rows_of(rows, roles.gender_col, selected_gender),
                                          {roles.year_col}, roles.year_col, subject),
                               bysubj, overall>>),
              controls |-> now]

\* lines 104-273: one run of the script on the uploaded file with the widget
\* state of the previous run
StudentsMainPass(keeps, file, ctl) ==
    IF file.kind = "none"
    THEN [screen |-> NoTablePage("", "no file", <<"info: Please upload your CSV to begin">>),
          controls |-> NoControls]
    ELSE IF file.kind = "bad"
    THEN [screen |-> NoTablePage("", "read error", <<"error: Could not read CSV">>),
          controls |-> NoControls]
    ELSE
    LET roles == detect_columns(file.cols)
        msgs  == IF missing_bits(roles) THEN <<"warning: I'm expecting">> ELSE <<>>
        clean == IF roles.year_col # None THEN clean_year(file.rows, roles.year_col)
                 ELSE file.rows
        pct   == IF roles.subject_cols # <<>> THEN overall_percentage(clean, roles.subject_cols)
                 ELSE <<>>
        rows  == IF roles.subject_cols # <<>> THEN assign(clean, "_OverallPct", pct) ELSE clean
        mode  == KeptMode(ctl)
    IN  IF mode = "Students" THEN StudentsView(keeps, roles, msgs, rows, pct, ctl)
        ELSE IF mode = "Subjects" THEN SubjectsView(keeps, roles, msgs, rows, pct, ctl)
        ELSE GenderView(keeps, roles, msgs, rows, pct, ctl)

(***************************************************************************)
(* Students_1.py                                                           *)
(***************************************************************************)
\* lines 13-97: one run of the script.  pd.read_csv at line 18 is outside any
\* try: a file it cannot parse ends the run with the parser's exception.
Students1Pass(file, ctl) ==
    IF file.kind = "none"
    THEN [screen |-> NoTablePage("", "no file", <<"info: Please upload your CSV to begin">>),
          controls |-> NoControls]
    ELSE IF file.kind = "bad"
    THEN [screen |-> NoTablePage("ParserError", "", <<>>), controls |-> NoControls]
    ELSE
    LET roles == detect_columns_1(file.cols)
    IN  IF roles.name_col = None \/ roles.year_col = None \/ roles.subject_cols = <<>>
        THEN [screen |-> StudentPage("", "schema error",
                             <<"error: Please ensure your CSV has: a Name/Student column, a Year column, and numeric subject columns">>,
                             roles, file.rows, <<>>, <<>>),
              controls |-> NoControls]
        ELSE
        LET rows == clean_year(file.rows, roles.year_col)
            student_list == {PickNone} \cup {astype_str(roles.name_col, rows[i][roles.name_col]) :
                                                i \in 1..Len(rows)}
            opts    == {PickNone} \cup Range(roles.subject_cols)
            student == Kept(ctl, "Students", ctl.a, ctl.a_opts, student_list, PickNone)
            subject == Kept(ctl, "Students", ctl.b, ctl.b_opts, opts, PickNone)
            now     == [ModeOnly("Students") EXCEPT !.a = student, !.a_opts = student_list,
                                                    !.b = subject, !.b_opts = opts]
            subdf   == sort_by_year(dropna(rows_of(rows, roles.name_col, student), subject),
                                    roles.year_col)
            chart   == Section("chart", "",
                               [k \in 1..Len(subdf) |->
                                   [Year |-> subdf[k][roles.year_col],
                                    Value |-> FMark(subject, subdf[k][subject])]])
            toppers == Section("toppers_subject", "",
                               per_year_toppers_subject(dropna(rows, subject), roles.year_col,
                                                        roles.name_col, subject))
        IN  IF student = PickNone \/ subject = PickNone
            THEN [screen |-> StudentPage("", "prompt",
                                 <<"info: Use the sidebar to select a Student and a Subject">>,
                                 roles, rows, <<>>, <<>>),
                  controls |-> now]
            ELSE IF subdf = <<>>
            THEN [screen |-> StudentPage("", "no data", <<"warning: No data available">>,
                                         roles, rows, <<>>, <<>>),
                  controls |-> now]
            ELSE [screen |-> RunSections(<<>>, roles, rows, <<>>, <<chart, toppers>>),
                  controls |-> now]

(***************************************************************************)
(* students.py                                                             *)
(***************************************************************************)
\* line 186
needed == {"Name", "Class", "Year"}

\* lines 10-19: load_data.  The uploaded file is read outside the try; the
\* bundled file is read inside it.  Either the table, or how the run ended.
load_data(file, bundled) ==
    IF file.kind # "none"
    THEN (IF file.kind = "bad" THEN [ok |-> FALSE, exception |-> "ParserError", msgs |-> <<>>, df |-> file]
          ELSE [ok |-> TRUE, exception |-> "", msgs |-> <<>>, df |-> file])
    ELSE IF bundled.kind # "csv"
    THEN [ok |-> FALSE, exception |-> "",
          msgs |-> <<"error: No CSV found. Please upload your data file">>, df |-> bundled]
    ELSE [ok |-> TRUE, exception |-> "", msgs |-> <<>>, df |-> bundled]

\* lines 26-32: compute_yearly_percentage: the table with the Percentage of
\* every row
compute_yearly_percentage(rows, subject_cols) ==
    assign(rows, "Percentage",
           [i \in 1..Len(rows) |->
               IF subject_cols = <<>> THEN FNaN ELSE RowMean(rows[i], subject_cols)])

\* lines 202-233: the Students mode
StudentsMode(msgs, roles, rows, pct, ctl) ==
    LET names    == {rows[i]["Name"] : i \in 1..Len(rows)}
        subjs    == IF roles.subject_cols = <<>> THEN {"(none)"} ELSE Range(roles.subject_cols)
        student  == Kept(ctl, "Students", ctl.a, ctl.a_opts, names, FirstSorted(names))
        subject  == Kept(ctl, "Students", ctl.b, ctl.b_opts, subjs,
                         IF roles.subject_cols = <<>> THEN "(none)" ELSE roles.subject_cols[1])
        show_pct == IF ctl.rendered /\ ctl.mode = "Students" THEN ctl.flag ELSE TRUE
        now      == [ModeOnly("Students") EXCEPT !.a = student, !.a_opts = names,
                                                 !.b = subject, !.b_opts = subjs, !.flag = show_pct]
        sdf      == sort_by_year(rows_of(rows, "Name", student), "Year")
        spct     == sort_by_year([i \in 1..Len(rows) |->
                                     [Name |-> rows[i]["Name"], Year |-> rows[i]["Year"], val |-> pct[i]]],
                                 "Year")
        marks    == Section("subject_chart", "",
                            [k \in 1..Len(sdf) |-> [Year |-> sdf[k]["Year"],
                                                    Value |-> FMark(subject, sdf[k][subject])]])
        mine     == SelectSeq(spct, LAMBDA p : p.Name = student)
        yearly   == Section("percentage_chart", "",
                            [k \in 1..Len(mine) |-> [Year |-> mine[k].Year, Value |-> mine[k].val]])
        found    == subject \in Range(roles.subject_cols)
    IN  [screen |-> RunSections(IF found THEN msgs
                                ELSE Append(msgs, "info: Selected subject not found in the uploaded file"),
                                roles, rows, pct,
                                (IF found THEN <<marks>> ELSE <<>>)
                                    \o (IF show_pct THEN <<yearly>> ELSE <<>>)),
         controls |-> now]

\* lines 116-142: layered_multi_subject_with_trends finds no series when
\* every chosen subject has a missing average in every year
no_series(rows, chosen) ==
    \A s \in chosen : \A i \in 1..Len(rows) : isnan(rows[i]["Year"]) \/ isnan(rows[i][s])

\* lines 236-253: the Subjects mode.  wide[sub] at line 130 raises KeyError
\* when no row has a year: the pivot of the empty avg_df has no columns.
SubjectsMode(msgs, roles, rows, pct, ctl) ==
    IF roles.subject_cols = <<>>
    THEN [screen |-> StudentPage("", "", Append(msgs, "info: No subject columns detected"),
                                 roles, rows, pct, <<>>),
          controls |-> ModeOnly("Subjects")]
    ELSE
    LET opts    == Range(roles.subject_cols)
        default == {roles.subject_cols[i] : i \in {1, 2} \cap DOMAIN roles.subject_cols}
        chosen  == IF ctl.rendered /\ ctl.mode = "Subjects" /\ ctl.multi_opts = opts
                   THEN ctl.multi ELSE default
        now     == [ModeOnly("Subjects") EXCEPT !.multi = chosen, !.multi_opts = opts]
        avg_df  == [s \in chosen |-> yearly_mean(rows, "Year", s)]
    IN  IF chosen = {}
        THEN [screen |-> StudentPage("", "", Append(msgs, "info: Select at least one subject to view trends"),
                                     roles, rows, pct, <<>>),
              controls |-> now]
        ELSE IF clean_year(rows, "Year") = <<>>
        THEN [screen |-> StudentPage("KeyError", "", msgs, roles, rows, pct, <<>>), controls |-> now]
        ELSE IF no_series(rows, chosen)
        THEN [screen |-> StudentPage("", "", Append(msgs, "info: Not enough data to compute trends"),
                                     roles, rows, pct, <<>>),
              controls |-> now]
        ELSE [screen |-> RunSections(msgs, roles, rows, pct, <<Section("average_chart", "", avg_df)>>),
              controls |-> now]

\* lines 256-326: the Gender mode
GenderMode(msgs, roles, cols, rows, pct, ctl) ==
    IF "Gender" \notin Range(cols)
    THEN [screen |-> StudentPage("", "", Append(msgs, "info: No 'Gender' column found in the dataset"),
                                 roles, rows, pct, <<>>),
          controls |-> ModeOnly("Gender")]
    ELSE IF roles.subject_cols = <<>>
    THEN [screen |-> StudentPage("", "", Append(msgs, "info: No subject columns detected"),
                                 roles, rows, pct, <<>>),
          controls |-> ModeOnly("Gender")]
    ELSE
    LET opts == Range(roles.subject_cols)
        subj == Kept(ctl, "Gender", ctl.b, ctl.b_opts, opts, roles.subject_cols[1])
        now  == [ModeOnly("Gender") EXCEPT !.b = subj, !.b_opts = opts]
    IN  [screen |-> RunSections(msgs, roles, rows, pct,
                        <<Section("gender_chart", "", pair_mean(rows, "Year", "Gender", subj))>>),
         controls |-> now]

\* lines 176-326: one run of the script.  The trend line drawn over each chart
\* is compute_trend_line, modelled on its own above; the sections here carry
\* the data series of the charts.
StudentsPass(bundled, file, ctl) ==
    LET got == load_data(file, bundled)
    IN  IF ~got.ok
        THEN [screen |-> NoTablePage(got.exception,
                                     IF got.exception = "" THEN "no csv" ELSE "", got.msgs),
              controls |-> NoControls]
        ELSE IF ~(needed \subseteq Range(got.df.cols))
        THEN [screen |-> NoTablePage("", "schema error", <<"error: Missing required columns">>),
              controls |-> NoControls]
        ELSE
        LET subject_cols == detect_subject_columns(got.df.cols)
            roles == [name_col |-> "Name", year_col |-> "Year",
                      gender_col |-> IF "Gender" \in Range(got.df.cols) THEN "Gender" ELSE None,
                      subject_cols |-> subject_cols]
            msgs  == IF subject_cols = <<>>
                     THEN <<"warning: No subject columns detected (numeric, non-reserved)">>
                     ELSE <<>>
            df    == compute_yearly_percentage(got.df.rows, subject_cols)
            pct   == [i \in 1..Len(df) |-> df[i]["Percentage"]]
            mode  == KeptMode(ctl)
        IN  IF mode = "Students" THEN StudentsMode(msgs, roles, df, pct, ctl)
            ELSE IF mode = "Subjects" THEN SubjectsMode(msgs, roles, df, pct, ctl)
            ELSE GenderMode(msgs, roles, got.df.cols, df, pct, ctl)

(***************************************************************************)
(* 03.py                                                                   *)
(***************************************************************************)
\* the placeholder of the two selectboxes of 03.py
NonePick == "(None)"

\* a literal DataFrame of class_data: the Student column and one column of
\* marks per subject, the marks in units of 1/MarkScale
class_table(students, subj_names, marks) ==
    [cols |-> <<"Student">> \o subj_names,
     rows |-> [i \in 1..Len(students) |->
                  [c \in {"Student"} \cup Range(subj_names) |->
                      IF c = "Student" THEN students[i] ELSE marks[c][i] * MarkScale]]]

\* lines 7-27
class_data ==
    [cls \in {"Class 10", "Class 11", "Class 12"} |->
        CASE cls = "Class 10" ->
                class_table(<<"Alice", "Bob", "Charlie", "David">>, <<"Math", "Science", "English">>,
                            [Math |-> <<85, 70, 90, 60>>, Science |-> <<78, 82, 88, 74>>,
                             English |-> <<92, 80, 75, 85>>])
          [] cls = "Class 11" ->
                class_table(<<"Eva", "Frank", "Grace">>, <<"Math", "Physics", "Chemistry">>,
                            [Math |-> <<88, 67, 95>>, Physics |-> <<91, 73, 89>>,
                             Chemistry |-> <<84, 69, 92>>])
          [] cls = "Class 12" ->
                class_table(<<"Henry", "Ivy", "Jack", "Karan", "Lily">>,
                            <<"Math", "Physics", "Chemistry", "English">>,
                            [Math |-> <<90, 85, 76, 88, 95>>, Physics |-> <<89, 80, 70, 92, 97>>,
                             Chemistry |-> <<93, 78, 74, 85, 99>>, English |-> <<87, 91, 79, 88, 94>>])]

\* the subjects of every class, whatever table is given
subjects_of_any(df) == UNION {Range(class_data[c].cols) : c \in DOMAIN class_data} \ {"Student"}

\* line 40: the subjects of the table of the selected class
subjects_of(df) == Range(df.cols) \ {"Student"}

\* round(f, 1) of a float
round1(f) == IF FIsNaN(f) THEN FNaN ELSE Frac(RoundHalfEven(f.num * 10, f.den), 10)

\* lines 52-58: the three metrics of a subject
metrics(rows, cls, subject) ==
    [cls |-> cls, subject |-> subject,
     avg |-> round1(Frac(SumOver([i \in 1..Len(rows) |-> rows[i][subject]], 1..Len(rows)),
                         Len(rows) * MarkScale)),
     max |-> int(nanmax(rows, subject)),
     min |-> int(nanmin(rows, subject))]

\* lines 29-64: one run of the script with the widget state of the previous
\* run.  The class selectbox is controls.a, the subject selectbox controls.b;
\* df[subject] raises KeyError for a subject that is no column of the table.
Pass03(ctl) ==
    LET classes_03   == {NonePick} \cup DOMAIN class_data
        cls_selected == Kept(ctl, "Students", ctl.a, ctl.a_opts, classes_03, NonePick)
        first        == [ModeOnly("Students") EXCEPT !.a = cls_selected, !.a_opts = classes_03,
                                                     !.b = NonePick]
    IN  IF cls_selected = NonePick
        THEN [screen |-> NoTablePage("", "prompt",
                             <<"info: Welcome! Please select a class from the sidebar to continue">>),
              controls |-> first]
        ELSE
        LET df       == class_data[cls_selected]
            subj_03  == {NonePick} \cup subjects_of(df)
            subject  == Kept(ctl, "Students", ctl.b, ctl.b_opts, subj_03, NonePick)
            now      == [first EXCEPT !.b = subject, !.b_opts = subj_03]
        IN  IF subject = NonePick
            THEN [screen |-> StudentPage("", "prompt",
                                 <<"info: Now pick a Subject from the sidebar to see results">>,
                                 NoRoles, df.rows, <<>>, <<>>),
                  controls |-> now]
            ELSE IF subject \notin Range(df.cols)
            THEN [screen |-> RunSections(<<>>, NoRoles, df.rows, <<>>,
                                 <<Section("table", "", df.cols), Section("metrics", "KeyError", <<>>)>>),
                  controls |-> now]
            ELSE [screen |-> RunSections(<<>>, NoRoles, df.rows, <<>>,
                                 <<Section("table", "", df.cols),
                                   Section("metrics", "", metrics(df.rows, cls_selected, subject)),
                                   Section("summary", "", subjects_of(df)),
                                   Section("bar_chart", "",
                                           [i \in 1..Len(df.rows) |->
                                               [Student |-> df.rows[i]["Student"],
                                                Value |-> df.rows[i][subject]]])>>),
                  controls |-> now]

(***************************************************************************)
(* Sessions of the student dashboards                                      *)
(***************************************************************************)
\* the rows of the uploaded student tables: two students tied on Math in
\* 2001, a year without any mark, and a row without a year
StudentVals ==
    {[who |-> "Asha", yr |-> 2001, g |-> "Female", code |-> 0, m1 |-> 80554, m2 |-> 70000],
     [who |-> "Ben", yr |-> 2001, g |-> "Male", code |-> 1, m1 |-> 80554, m2 |-> NaN],
     [who |-> "Ben", yr |-> 2000, g |-> "Male", code |-> 1, m1 |-> NaN, m2 |-> NaN],
     [who |-> "Asha", yr |-> NaN, g |-> "Female", code |-> 0, m1 |-> 60000, m2 |-> 90000]}

\* the column layouts of the uploaded student tables
Schemas ==
    {<<"Name", "Class", "Year", "Gender", "Math", "Science">>,
     <<"name", "class", "year", "sex", "Math">>,
     <<"Student", "class_year", "Math">>,
     <<"student_name", "Name", "Year", "Math">>,
     <<"Name", "Class", "Year", "Math">>,
     <<"Name", "Math">>,
     <<"Year", "Gender", "Math">>,
     <<"Name", "Class", "Year", "Gender">>,
     <<"Name", "Class", "Year", "Math", "Percentage">>}

\* a row of a table with the given columns
StudentRow(cols, v) ==
    [c \in Range(cols) |->
        CASE lower(c) \in {"name", "student", "student_name"} -> v.who
          [] lower(c) \in {"year", "class_year"} -> v.yr
          [] lower(c) = "class" -> "10A"
          [] c = "Gender" -> v.g
          [] c = "sex" -> v.code
          [] c = "Math" -> v.m1
          [] c = "Science" -> v.m2
          [] c = "Percentage" -> "81%"]

NoCsv == [kind |-> "none", cols |-> <<>>, rows |-> <<>>]

\* a file pd.read_csv cannot parse
BadCsv == [kind |-> "bad", cols |-> <<>>, rows |-> <<>>]

\* the files a user can upload: unreadable, or a table of 1..MaxStudentRows rows
StudentFiles ==
    {BadCsv} \cup
    {[kind |-> "csv", cols |-> cols, rows |-> [i \in 1..Len(vs) |-> StudentRow(cols, vs[i])]] :
        cols \in Schemas, vs \in SeqsUpTo(StudentVals, MaxStudentRows) \ {<<>>}}

\* batch2000_student_marks_with_gender.csv in the app folder of students.py
BundledCsv ==
    [kind |-> "csv", cols |-> <<"Name", "Class", "Year", "Gender", "Math", "Science">>,
     rows |-> [i \in 1..2 |->
                  StudentRow(<<"Name", "Class", "Year", "Gender", "Math", "Science">>,
                             <<[who |-> "Asha", yr |-> 2000, g |-> "Female", code |-> 0,
                                m1 |-> 70000, m2 |-> 75000],
                               [who |-> "Asha", yr |-> 2001, g |-> "Female", code |-> 0,
                                m1 |-> 80000, m2 |-> 65000]>>[i])]]

\* the deployments: the script that runs, whether its pandas hands the
\* grouping column to groupby.apply (StudentsMain.py), and the bundled file
\* in the app folder (students.py)
Scripts ==
    {[name |-> "StudentsMain", keeps |-> k, bundled |-> NoCsv] : k \in BOOLEAN}
        \cup {[name |-> "Students_1", keeps |-> TRUE, bundled |-> NoCsv]}
        \cup {[name |-> "students", keeps |-> TRUE, bundled |-> b] : b \in {NoCsv, BundledCsv}}
        \cup {[name |-> "03", keeps |-> TRUE, bundled |-> NoCsv]}

\* one run of the deployed script
Pass(s, file, ctl) ==
    IF s.name = "StudentsMain" THEN StudentsMainPass(s.keeps, file, ctl)
    ELSE IF s.name = "Students_1" THEN Students1Pass(file, ctl)
    ELSE IF s.name = "03" THEN Pass03(ctl)
    ELSE StudentsPass(s.bundled, file, ctl)

\* the first run of a script in a fresh session
StudentStart ==
    /\ script \in Scripts
    /\ csv = NoCsv
    /\ \E first \in {Pass(script, NoCsv, NoControls)} :
         controls = first.controls /\ screen = first.screen

\* a rerun of the script after the user changed the uploader or a widget
StudentRerun(file, ctl) ==
    \E pass \in {Pass(script, file, ctl)} :
        /\ csv' = file
        /\ controls' = pass.controls
        /\ screen' = pass.screen
        /\ UNCHANGED <<script, trendVars, trialVars, otherVars>>

\* the file uploader; 03.py has none
UploadCsv ==
    script.name # "03" /\ csv = NoCsv /\ \E f \in StudentFiles : StudentRerun(f, controls)

RemoveCsv == csv # NoCsv /\ StudentRerun(NoCsv, controls)

\* the view radio of StudentsMain.py and students.py
ChooseView ==
    /\ controls.rendered
    /\ script.name \in {"StudentsMain", "students"}
    /\ \E v \in {"Students", "Subjects", "Gender"} :
         v # controls.mode /\ StudentRerun(csv, [controls EXCEPT !.mode = v])

\* the student selectbox, or the gender selectbox of the Gender view
SelectStudent ==
    /\ controls.rendered
    /\ \E v \in controls.a_opts :
         v # controls.a /\ StudentRerun(csv, [controls EXCEPT !.a = v])

\* the metric or subject selectbox
SelectSubject ==
    /\ controls.rendered
    /\ \E v \in controls.b_opts :
         v # controls.b /\ StudentRerun(csv, [controls EXCEPT !.b = v])

\* the subjects multiselect of students.py
SelectSubjects ==
    /\ controls.rendered
    /\ \E v \in SUBSET controls.multi_opts :
         v # controls.multi /\ StudentRerun(csv, [controls EXCEPT !.multi = v])

\* the Compare checkbox of StudentsMain.py, the percentage Yes/No box of students.py
ToggleOption ==
    /\ controls.rendered
    /\ \/ script.name = "StudentsMain" /\ controls.mode = "Gender" /\ controls.b_opts # {}
       \/ script.name = "students" /\ controls.mode = "Students"
    /\ StudentRerun(csv, [controls EXCEPT !.flag = ~controls.flag])

(***************************************************************************)
(* test-3.py                                                               *)
(***************************************************************************)
\* the values np.random.randn draws, as whole steps
Draws == {-1, 0, 1}

\* ndarray.cumsum(): the running sums of a sequence
cumsum(steps) == [i \in 1..Len(steps) |-> SumOver(steps, 1..i)]

\* lines 9-22: one run of the script: the demo table is built from fresh
\* random draws, then shown as a table and as the chart of the picked type
Test3Pass(view, steps) ==
    [on |-> TRUE, view |-> view,
     df |-> [i \in 1..Points |-> [x |-> i, y |-> cumsum(steps)[i]]],
     chart |-> [kind |-> view,
                series |-> [i \in 1..Points |-> [x |-> i, y |-> cumsum(steps)[i]]]]]

\* no session of test-3.py
NoTest3 == [on |-> FALSE, view |-> "Line", df |-> <<>>, chart |-> [kind |-> "Line", series |-> <<>>]]

\* the first run in a fresh session: the radio shows its first option
Test3Start == \E steps \in [1..Points -> Draws] : test3 = Test3Pass("Line", steps)

\* line 14: the user picks the other chart type; the script reruns
PickChartType ==
    /\ test3.on
    /\ \E v \in {"Line", "Bar"} \ {test3.view}, steps \in [1..Points -> Draws] :
          test3' = Test3Pass(v, steps)
    /\ UNCHANGED <<trendVars, trialVars, studentVars, stock, call>>

\* the user reruns the script without touching the radio
RerunTest3 ==
    /\ test3.on
    /\ \E steps \in [1..Points -> Draws] : test3' = Test3Pass(test3.view, steps)
    /\ UNCHANGED <<trendVars, trialVars, studentVars, stock, call>>

(***************************************************************************)
(* Stock.py                                                                *)
(***************************************************************************)
\* line 26
NIFTY_SYMBOL == "^NSEI"

\* the stocks of NIFTY50 (lines 27-37) the sessions of the model choose from;
\* sorted(NIFTY50)[0] is the default of the selectbox
Tickers == {"ADANIENT.NS", "TCS.NS"}

FirstTicker == "ADANIENT.NS"

\* lines 106, 114, 121: the options of the three other sidebar widgets
MAOptions == {10, 20, 30, 50, 100, 200}

VolOptions == {10, 20, 30, 60}

ChartOptions == {"Price + MAs", "Drawdown", "Rolling Volatility", "Excess Return vs NIFTY"}

\* f"SMA{w}"
SMAName(w) ==
    CASE w = 10 -> "SMA10" [] w = 20 -> "SMA20" [] w = 30 -> "SMA30"
      [] w = 50 -> "SMA50" [] w = 100 -> "SMA100" [] w = 200 -> "SMA200"

\* float arithmetic; NaN in, NaN out; x/0 is not a number of the model
FAdd(a, b) ==
    IF FIsNaN(a) \/ FIsNaN(b) THEN FNaN ELSE Frac(a.num * b.den + b.num * a.den, a.den * b.den)

FSub(a, b) ==
    IF FIsNaN(a) \/ FIsNaN(b) THEN FNaN ELSE Frac(a.num * b.den - b.num * a.den, a.den * b.den)

FDiv(a, b) ==
    IF FIsNaN(a) \/ FIsNaN(b) \/ b.num = 0 THEN FNaN ELSE Frac(a.num * b.den, a.den * b.num)

\* the price fields yf.download returns per ticker with auto_adjust
Fields == {"Open", "High", "Low", "Close", "Volume"}

\* the closing prices of the model, per symbol, one per trading day
ClosesOf(symbol) ==
    IF symbol = NIFTY_SYMBOL THEN <<200, 210, 189, 220>>
    ELSE IF symbol = "TCS.NS" THEN <<100, 120, 90, 130>>
    ELSE <<50, 40, 60, 45>>

\* the block of columns of one symbol in the frame yf.download returns: its
\* fields, and its closing prices on the first n trading days
Block(symbol, fields, n) ==
    [fields |-> fields, close |-> [i \in 1..n |-> FInt(ClosesOf(symbol)[i])]]

\* what yf.download can return for the two symbols (lines 49-58): a frame
\* indexed by Date with a block of columns per symbol it has data for.  A
\* symbol without data has no block, a block can come without its Close
\* field, and a frame can come with its columns and no row.
Downloads(symbols) ==
    {[t \in have |-> Block(t, IF t \in bare THEN Fields \ {"Close"} ELSE Fields, n)] :
        have \in SUBSET symbols, bare \in SUBSET symbols, n \in {0, MaxDays}}

\* lines 42-73: fetch_prices for two tickers: a tidy table per symbol that
\* has a block in the downloaded frame, the index turned into the Date column
fetch_prices(tickers, frame) ==
    [t \in {s \in Range(tickers) : s \in DOMAIN frame} |->
        [columns |-> {"Date"} \cup frame[t].fields,
         Date |-> [i \in 1..Len(frame[t].close) |-> i],
         Close |-> IF "Close" \in frame[t].fields THEN frame[t].close ELSE <<>>]]

\* Series.pct_change()
pct_change(c) ==
    [i \in 1..Len(c) |-> IF i = 1 THEN FNaN ELSE FSub(FDiv(c[i], c[i - 1]), FInt(1))]

\* Series.rolling(w).mean(): NaN until w values are there
rolling_mean(c, w) ==
    LET RECURSIVE Sum(_, _)
        Sum(i, k) == IF k = 0 THEN FInt(0) ELSE FAdd(c[i], Sum(i - 1, k - 1))
    IN  [i \in 1..Len(c) |-> IF i < w THEN FNaN ELSE FDiv(Sum(i, w), FInt(w))]

\* Series.cummin()
cummin(c) ==
    [i \in 1..Len(c) |-> CHOOSE m \in {c[j] : j \in 1..i} : \A j \in 1..i : ~FLt(c[j], m)]

\* Series.cummax()
cummax(c) ==
    [i \in 1..Len(c) |-> CHOOSE m \in {c[j] : j \in 1..i} : \A j \in 1..i : ~FGt(c[j], m)]

\* Series.rolling(w).std() * sqrt(252) of the returns: NaN until w returns are
\* there.  The first return is NaN, so a table of at most w rows has no
\* value; the tables of the model are shorter than the shortest window.
rolling_vol(r, w) == [i \in 1..Len(r) |-> FNaN]

\* lines 76-87: add_indicators: the table with the columns Returns, SMA{w}
\* for every window, CumMax, Drawdown and VolAnnual added
add_indicators(df, ma_windows, vol_window) ==
    LET Returns == pct_change(df.Close)
        CumMax  == cummax(df.Close)
    IN  [columns |-> df.columns \cup {"Returns", "CumMax", "Drawdown", "VolAnnual"}
                        \cup {SMAName(w) : w \in ma_windows},
         Date |-> df.Date,
         Close |-> df.Close,
         Returns |-> Returns,
         SMA |-> [w \in ma_windows |-> rolling_mean(df.Close, w)],
         CumMax |-> CumMax,
         Drawdown |-> [i \in 1..Len(df.Close) |-> FDiv(FSub(df.Close[i], CumMax[i]), CumMax[i])],
         VolAnnual |-> rolling_vol(Returns, vol_window)]

\* norm_to_first without the product with NaN: an unusable series is handed back
norm_or_same(series) ==
    IF series = <<>> \/ FIsNaN(series[1]) \/ series[1].num = 0
    THEN series
    ELSE [i \in 1..Len(series) |-> FDiv(series[i], series[1])]

\* lines 90-93: norm_to_first
norm_to_first(series) ==
    IF series = <<>> \/ FIsNaN(series[1]) \/ series[1].num = 0
    THEN [i \in 1..Len(series) |-> FNaN]
    ELSE [i \in 1..Len(series) |-> FDiv(series[i], series[1])]

\* the selections of a fresh session: the defaults of the four widgets
FirstSelections ==
    [ticker |-> FirstTicker, ma_choice |-> {20, 50}, vol_window |-> 20,
     chart_choices |-> {"Price + MAs", "Drawdown", "Rolling Volatility"}]

\* what a pass leaves on the screen: the exception nothing caught if any,
\* why the pass stopped (st.stop()) if it did, the messages shown, the windows
\* add_indicators was called with ({} when it was not called), the enriched
\* table, the KPIs and the charts rendered, in order
StockPage(exc, why, msgs, windows, table, kpis, sections) ==
    [exception |-> exc, stopped |-> why, msgs |-> msgs, windows |-> windows,
     table |-> table, kpis |-> kpis, sections |-> sections]

NoTable == [columns |-> {}]

\* a pass that stops before add_indicators
StoppedStockPage(why, msg) == StockPage("", why, <<msg>>, {}, NoTable, <<>>, <<>>)

\* lines 149-158: the NIFTY close joined on Date, and the excess returns
with_nifty(stk, nifty) ==
    LET NIFTY == [i \in 1..Len(stk.Date) |->
                     IF stk.Date[i] \in Range(nifty.Date) THEN nifty.Close[stk.Date[i]] ELSE FNaN]
        Excess == [i \in 1..Len(stk.Date) |-> FSub(stk.Returns[i], pct_change(NIFTY)[i])]
        RECURSIVE Cum(_)
        Cum(i) == IF i = 0 THEN FInt(0)
                  ELSE FAdd(Cum(i - 1), IF FIsNaN(Excess[i]) THEN FInt(0) ELSE Excess[i])
    IN  [c \in DOMAIN stk \cup {"NIFTY", "Excess_Cum"} |->
            IF c = "columns"
            THEN stk.columns \cup {"NIFTY", "NIFTY_Returns", "Excess_Returns", "Excess_Cum"}
            ELSE IF c = "NIFTY" THEN NIFTY
            ELSE IF c = "Excess_Cum" THEN [i \in 1..Len(stk.Date) |-> Cum(i)]
            ELSE stk[c]]

\* lines 165-175: the four KPIs; a table without rows has no first date
\* to format and the pass ends with the exception
summary(stk) ==
    [first |-> stk.Date[1], last |-> stk.Date[Len(stk.Date)],
     perf |-> FSub(FDiv(stk.Close[Len(stk.Close)], stk.Close[1]), FInt(1)),
     max_dd |-> CHOOSE m \in Range(stk.Drawdown) : \A d \in Range(stk.Drawdown) : ~FLt(d, m)]

\* lines 183-202: the charts picked in the sidebar, in the order of the
\* script; selecting a column the table does not have raises KeyError
charts(stk, ma_choice, chart_choices) ==
    LET show_cols == {"Close"} \cup {SMAName(w) : w \in ma_choice}
        price == IF "Price + MAs" \notin chart_choices THEN <<>>
                 ELSE IF ~(show_cols \subseteq stk.columns)
                 THEN <<Section("Price + MAs", "KeyError", <<>>)>>
                 ELSE <<Section("Price + MAs", "", show_cols)>>
        dd    == IF "Drawdown" \in chart_choices
                 THEN <<Section("Drawdown", "", stk.Drawdown)>> ELSE <<>>
        vol   == IF "Rolling Volatility" \in chart_choices
                 THEN <<Section("Rolling Volatility", "", stk.VolAnnual)>> ELSE <<>>
        exc   == IF "Excess Return vs NIFTY" \in chart_choices
                 THEN <<Section("Excess Return vs NIFTY", "", stk.Excess_Cum)>> ELSE <<>>
    IN  price \o dd \o vol \o exc

\* a test of the downloaded columns that asks for the Date column only
has_date(table) == "Date" \in table.columns

\* lines 141-142: required_cols.issubset(table.columns)
has_required(table) == {"Date", "Close"} \subseteq table.columns

\* lines 130-228: one run of the script on the fetched tables.  Reading a
\* column a table does not have raises KeyError: d["Close"] in add_indicators,
\* nifty[["Date", "Close"]] in the join.
StockRender(sel, data) ==
    IF sel.ticker \notin DOMAIN data \/ NIFTY_SYMBOL \notin DOMAIN data
    THEN StoppedStockPage("fetch error", "error: Could not fetch data")
    ELSE IF ~has_required(data[sel.ticker]) \/ ~has_required(data[NIFTY_SYMBOL])
    THEN StoppedStockPage("columns error", "error: Downloaded data is missing required columns")
    ELSE IF "Close" \notin data[sel.ticker].columns
    THEN StockPage("KeyError", "", <<>>, {}, NoTable, <<>>, <<>>)
    ELSE IF "Close" \notin data[NIFTY_SYMBOL].columns
    THEN StockPage("KeyError", "", <<>>, IF sel.ma_choice = {} THEN {20} ELSE sel.ma_choice,
                   NoTable, <<>>, <<>>)
    ELSE
    LET ma_choice == IF sel.ma_choice = {} THEN {20} ELSE sel.ma_choice
        stk   == with_nifty(add_indicators(data[sel.ticker], ma_choice, sel.vol_window),
                            data[NIFTY_SYMBOL])
        todo  == charts(stk, ma_choice, sel.chart_choices)
        bad   == {i \in 1..Len(todo) : todo[i].raised # ""}
        shown == IF bad = {} THEN Len(todo) ELSE SetMin(bad) - 1
    IN  IF stk.Date = <<>>
        THEN StockPage("ValueError", "", <<>>, ma_choice, stk, <<>>, <<>>)
        ELSE StockPage(IF bad = {} THEN "" ELSE todo[SetMin(bad)].raised, "", <<>>, ma_choice, stk,
                       <<summary(stk)>>,
                       [i \in 1..shown |-> [name |-> todo[i].name, data |-> todo[i].data]]
                           \o (IF bad = {} THEN <<[name |-> "Normalized",
                                                    data |-> [stock |-> norm_to_first(stk.Close),
                                                              nifty |-> norm_to_first(stk.NIFTY)]]>>
                               ELSE <<>>))

\* no session of Stock.py
NoStock ==
    [on |-> FALSE, sel |-> FirstSelections, cache |-> <<>>, clicks |-> 0,
     page |-> StoppedStockPage("idle", "")]

\* a run of the script with the given selections after n interactions.
\* fetch_prices is cached on its arguments (@st.cache_data): the frame is
\* downloaded only for a ticker this server has not fetched yet.
StockRun(sel, cache, n) ==
    IF sel.ticker \in DOMAIN cache
    THEN stock' = [on |-> TRUE, sel |-> sel, cache |-> cache, clicks |-> n,
                   page |-> StockRender(sel, cache[sel.ticker])]
    ELSE \E frame \in Downloads({sel.ticker, NIFTY_SYMBOL}) :
            \E data \in {fetch_prices(<<sel.ticker, NIFTY_SYMBOL>>, frame)} :
                stock' = [on |-> TRUE, sel |-> sel,
                          cache |-> [t \in DOMAIN cache \cup {sel.ticker} |->
                                        IF t = sel.ticker THEN data ELSE cache[t]],
                          clicks |-> n, page |-> StockRender(sel, data)]

\* the first run in a fresh session
StockStart ==
    \E frame \in Downloads({FirstTicker, NIFTY_SYMBOL}) :
        \E data \in {fetch_prices(<<FirstTicker, NIFTY_SYMBOL>>, frame)} :
            stock = [on |-> TRUE, sel |-> FirstSelections,
                     cache |-> [t \in {FirstTicker} |-> data], clicks |-> 0,
                     page |-> StockRender(FirstSelections, data)]

\* an interaction with the sidebar: the script reruns with the new selections
StockRerun(sel) ==
    /\ stock.clicks < MaxClicks
    /\ StockRun(sel, stock.cache, stock.clicks + 1)
    /\ UNCHANGED <<trendVars, trialVars, studentVars, test3, call>>

\* line 101
SelectTicker ==
    stock.on /\ \E t \in Tickers \ {stock.sel.ticker} : StockRerun([stock.sel EXCEPT !.ticker = t])

\* lines 104-109: the user adds or removes one window of the multiselect
ToggleMA ==
    stock.on /\ \E w \in MAOptions :
        StockRerun([stock.sel EXCEPT !.ma_choice =
                       IF w \in @ THEN @ \ {w} ELSE @ \cup {w}])

\* lines 113-116
SelectVolWindow ==
    stock.on /\ \E w \in VolOptions \ {stock.sel.vol_window} : StockRerun([stock.sel EXCEPT !.vol_window = w])

\* lines 119-123: the user adds or removes one chart of the multiselect
ToggleChart ==
    stock.on /\ \E c \in ChartOptions :
        StockRerun([stock.sel EXCEPT !.chart_choices =
                       IF c \in @ THEN @ \ {c} ELSE @ \cup {c}])

(***************************************************************************)
(* Helpers called on their own                                             *)
(***************************************************************************)
NoCall == [fn |-> "none", arg |-> <<>>, out |-> <<>>, done |-> FALSE]

CallIdle == call = NoCall

\* the column names of the files handed to load_csv: known names, other
\* candidates of the same roles, a name with a blank, and an unknown name
HeaderNames ==
    {"Name", " Name", "Class", "Section", "Subject", "course", "Marks", "Score",
     "Date", "exam_date", "Roll"}

\* the sequences of at most n distinct column names (pd.read_csv renames a
\* repeated name, so the names of a parsed file differ)
RECURSIVE Headers(_)
Headers(n) ==
    IF n = 0 THEN {<<>>}
    ELSE LET shorter == Headers(n - 1)
         IN  shorter \cup {Append(h, c) : h \in {t \in shorter : Len(t) = n - 1},
                                           c \in HeaderNames}

\* no name stands twice in the sequence
Distinct(h) == \A i, j \in 1..Len(h) : h[i] = h[j] => i = j

\* a cell of a file: a marks column holds a number, any other column the
\* text of its own name; absent cells are NaN and the missing text
FileCell(c, present) ==
    IF ColKey(c) \in {"marks", "score"}
    THEN IF ~present THEN NaN ELSE IF ColKey(c) = "marks" THEN 50 * MarkScale ELSE 60 * MarkScale
    ELSE IF present THEN c ELSE NaStr

\* the files handed to load_csv: a full row followed by an empty row
LoadFiles ==
    {[kind |-> "csv", cols |-> h,
      rows |-> <<[c \in Range(h) |-> FileCell(c, TRUE)], [c \in Range(h) |-> FileCell(c, FALSE)]>>] :
        h \in {g \in Headers(MaxCols) : g # <<>> /\ Distinct(g)}}

\* a call of load_csv(file) is about to be made
LoadStart ==
    \E f \in LoadFiles : call = [fn |-> "load_csv", arg |-> f, out |-> <<>>, done |-> FALSE]

\* trial.py lines 45-92: the call returns or raises
LoadCsv ==
    /\ call.fn = "load_csv" /\ ~call.done
    /\ call' = [call EXCEPT !.out = load_csv(call.arg), !.done = TRUE]
    /\ UNCHANGED <<trendVars, trialVars, studentVars, test3, stock>>

\* the closing prices of the tables handed to add_indicators: positive,
\* whole and fractional
Prices == {FInt(50), Frac(201, 2), FInt(100), FInt(120)}

\* a tidy price table with the given closing prices
PriceTable(closes) ==
    [columns |-> {"Date"} \cup Fields,
     Date |-> [i \in 1..Len(closes) |-> i],
     Close |-> closes]

\* a call of add_indicators(df) with the default windows is about to be made
IndicatorsStart ==
    \E closes \in SeqsUpTo(Prices, MaxDays) :
        call = [fn |-> "add_indicators", arg |-> PriceTable(closes), out |-> <<>>, done |-> FALSE]

\* Stock.py lines 76-87: the call returns; every assignment of the function
\* goes to the copy d, the argument is the table it was
AddIndicators ==
    /\ call.fn = "add_indicators" /\ ~call.done
    /\ call' = [call EXCEPT !.out = add_indicators(call.arg, {20, 50}, 20), !.done = TRUE]
    /\ UNCHANGED <<trendVars, trialVars, studentVars, test3, stock>>

\* the values of the series handed to norm_to_first: missing, zero, positive
\* and negative
SeriesValues == {FNaN, FInt(0), FInt(50), FInt(100), FInt(0 - 20)}

\* a call of norm_to_first(series) is about to be made
NormStart ==
    \E series \in SeqsUpTo(SeriesValues, MaxDays) :
        call = [fn |-> "norm_to_first", arg |-> series, out |-> <<>>, done |-> FALSE]

\* Stock.py lines 90-93: the call returns
NormToFirst ==
    /\ call.fn = "norm_to_first" /\ ~call.done
    /\ call' = [call EXCEPT !.out = norm_to_first(call.arg), !.done = TRUE]
    /\ UNCHANGED <<trendVars, trialVars, studentVars, test3, stock>>

(***************************************************************************)
(* Specifications                                                          *)
(***************************************************************************)
TrendIdle == x = <<>> /\ y = <<>> /\ result = NoResult /\ tpc = "idle"

TrialIdle == up = NoFile /\ widgets = NoWidgets /\ page = BlankPage("idle", <<>>, DEMO_DF) /\ csv_cache = <<>>

StudentIdle ==
    /\ script = [name |-> "none", keeps |-> TRUE, bundled |-> NoCsv]
    /\ csv = NoCsv
    /\ controls = NoControls
    /\ screen = NoTablePage("", "idle", <<>>)

\* compute_trend_line on every series of the model
Test3Idle == test3 = NoTest3

StockIdle == stock = NoStock

InitTrend == TrendStart /\ TrialIdle /\ StudentIdle /\ Test3Idle /\ StockIdle /\ CallIdle

NextTrend == ComputeTrendLine

SpecTrend == InitTrend /\ [][NextTrend]_vars

\* a session of trial.py
InitTrial == TrialStart /\ TrendIdle /\ StudentIdle /\ Test3Idle /\ StockIdle /\ CallIdle

NextTrial == UploadFile \/ RemoveFile \/ ChangeClass \/ ChangeSubjects \/ ChangeMarkRange

SpecTrial == InitTrial /\ [][NextTrial]_vars

\* a session of one of the student dashboards
InitStudents == StudentStart /\ TrendIdle /\ TrialIdle /\ Test3Idle /\ StockIdle /\ CallIdle

NextStudents ==
    \/ UploadCsv \/ RemoveCsv \/ ChooseView \/ SelectStudent \/ SelectSubject
    \/ SelectSubjects \/ ToggleOption

SpecStudents == InitStudents /\ [][NextStudents]_vars

\* a session of any of the dashboards that read a file
InitDashboards == InitTrial \/ InitStudents

NextDashboards ==
    \/ script.name = "none" /\ NextTrial
    \/ script.name # "none" /\ NextStudents

SpecDashboards == InitDashboards /\ [][NextDashboards]_vars

\* a session of test-3.py
InitTest3 == Test3Start /\ TrendIdle /\ TrialIdle /\ StudentIdle /\ StockIdle /\ CallIdle

NextTest3 == PickChartType \/ RerunTest3

\* a session of trial.py or of test-3.py: the scripts whose passes read
\* nothing but their source table and their widgets
InitPasses == InitTrial \/ InitTest3

NextPasses ==
    \/ ~test3.on /\ NextTrial
    \/ test3.on /\ NextTest3

SpecPasses == InitPasses /\ [][NextPasses]_vars

\* a session of Stock.py
InitStock == StockStart /\ TrendIdle /\ TrialIdle /\ StudentIdle /\ Test3Idle /\ CallIdle

NextStock == SelectTicker \/ ToggleMA \/ SelectVolWindow \/ ToggleChart

SpecStock == InitStock /\ [][NextStock]_vars

\* a session of a student dashboard or of Stock.py: the scripts that guard
\* their table with load and schema messages
InitGuarded == InitStudents \/ InitStock

NextGuarded ==
    \/ ~stock.on /\ NextStudents
    \/ stock.on /\ NextStock

SpecGuarded == InitGuarded /\ [][NextGuarded]_vars

\* the helpers called on their own
InitCalls ==
    (LoadStart \/ IndicatorsStart \/ NormStart) /\ TrendIdle /\ TrialIdle /\ StudentIdle /\ Test3Idle /\ StockIdle

NextCalls == LoadCsv \/ AddIndicators \/ NormToFirst

SpecCalls == InitCalls /\ [][NextCalls]_vars

(***************************************************************************)
(* Claims about compute_trend_line                                         *)
(***************************************************************************)
\* the positions of the series whose x and y are both present
ValidPairs == {i \in 1..Len(x) : x[i] # NaN /\ y[i] # NaN}

IsFlatResult ==
    /\ ~result.raised
    /\ result.slope = [num |-> 0, den |-> 1]
    /\ result.label = "Flat"
    /\ Len(result.y_fit) = Len(y)
    /\ \A i \in 1..Len(y) : result.y_fit[i].den = 0

\* C1: a call that reaches the fit labels its result from the fitted slope and
\* tol alone: slope > tol is Growing, slope < -tol is Falling, every other
\* slope (slope = tol and slope = -tol included) is Flat.
C1_LabelFromSlope ==
    (tpc = "done" /\ result.branch = "fit") =>
        LET s == result.slope
            above == s.den # 0 /\ s.num * TolDen > TolNum * s.den
            below == s.den # 0 /\ s.num * TolDen < (0 - TolNum) * s.den
        IN  /\ above => result.label = "Growing"
            /\ below => result.label = "Falling"
            /\ (~above /\ ~below) => result.label = "Flat"

\* a fit whose slope is exactly tol, labelled Flat
C1_Witness ==
    /\ tpc = "done"
    /\ result.branch = "fit"
    /\ result.slope = [num |-> TolNum, den |-> TolDen]
    /\ result.label = "Flat"

\* C2: with fewer than two pairs left after discarding the pairs with a
\* missing x or y, the call does not raise and returns slope 0, Flat, and an
\* undefined fitted value at every input position.
C2_TooFewValidIsFlat ==
    (tpc = "done" /\ Cardinality(ValidPairs) < 2) => IsFlatResult

\* a series of three points with a single valid pair, rejected by the mask test
C2_Witness ==
    /\ tpc = "done"
    /\ Len(y) = 3
    /\ Cardinality(ValidPairs) = 1
    /\ result.branch = "mask"
    /\ IsFlatResult

\* C3: a series of two or more points whose y values are all equal gets
\* slope 0, Flat and undefined fitted values from the guard, without a fit.
C3_ConstantSeriesIsFlat ==
    (/\ tpc = "done"
     /\ Len(y) >= 2
     /\ y[1] # NaN
     /\ \A i \in 1..Len(y) : y[i] = y[1])
        => (IsFlatResult /\ result.branch = "guard")

\* y = [50, 50, 50, 50] over x = [2000..2003]
C3_Witness ==
    /\ tpc = "done"
    /\ x = <<2000, 2001, 2002, 2003>>
    /\ y = <<50, 50, 50, 50>>
    /\ IsFlatResult

\* C4: with at least two valid pairs whose y values are not all equal (and
\* whose x values are not all equal, so that the least-squares line exists),
\* the call returns the least-squares slope of the valid pairs, the line
\* evaluated at every input x, and the label of that slope; so y = [100000,
\* 100001] over x = [0, 1] gives slope 1 and Growing.
C4_FitIsLeastSquares ==
    (/\ tpc = "done"
     /\ Cardinality(ValidPairs) >= 2
     /\ \E i, j \in ValidPairs : y[i] # y[j]
     /\ \E i, j \in ValidPairs : x[i] # x[j])
        =>
        LET n   == Cardinality(ValidPairs)
            sx  == SumOver([i \in 1..Len(x) |-> x[i]], ValidPairs)
            sy  == SumOver([i \in 1..Len(x) |-> y[i]], ValidPairs)
            sxx == SumOver([i \in 1..Len(x) |-> x[i] * x[i]], ValidPairs)
            sxy == SumOver([i \in 1..Len(x) |-> x[i] * y[i]], ValidPairs)
            cov == n * sxy - sx * sy
            var == n * sxx - sx * sx
        IN  /\ ~result.raised
            /\ result.slope.den # 0
            /\ result.slope.num * var = cov * result.slope.den
            /\ Len(result.y_fit) = Len(x)
            /\ \A i \in 1..Len(x) :
                 IF x[i] = NaN THEN result.y_fit[i].den = 0
                 ELSE /\ result.y_fit[i].den # 0
                      /\ result.y_fit[i].num * (n * var)
                           = (cov * n * x[i] + sy * var - cov * sx) * result.y_fit[i].den
            /\ (x = <<0, 1>> /\ y = <<100000, 100001>>)
                 => (result.slope = [num |-> 1, den |-> 1] /\ result.label = "Growing")

\* the exactly linear series of the specification is fitted with slope 10
C4_LinearExample ==
    (tpc = "done" /\ x = <<2000, 2001, 2002, 2003>> /\ y = <<40, 50, 60, 70>>)
        => (result.slope = [num |-> 10, den |-> 1] /\ result.label = "Growing")

(***************************************************************************)
(* Claims about trial.py                                                   *)
(***************************************************************************)
\* the aggregates the page derives from a table
Aggregates(rows) ==
    [by_subject |-> avg_by_subj(rows), by_student |-> top_students(rows),
     highest |-> nanmax(rows, "Marks"), lowest |-> nanmin(rows, "Marks")]

\* the pass rendered its widgets and every filter is at its widest setting
WidestFilters ==
    /\ page.stopped = "no"
    /\ widgets.class_sel = "All"
    /\ widgets.subj_sel = widgets.subj_opts
    /\ widgets.mark_range = <<widgets.lo, widgets.hi>>

\* C5: with the marks slider at min_m..max_m, every subject selected and
\* Class = All, the filtered table has the aggregates of the loaded table
\* (stated for the loaded tables in which no mark is missing, fractional and
\* negative marks included).
C5_WidestFilterKeepsAggregates ==
    (WidestFilters /\ \A i \in 1..Len(page.df.rows) : page.df.rows[i].Marks # NaN)
        => Aggregates(page.fdf) = Aggregates(page.df.rows)

\* C6: the CSV offered by the download button of a pass is the serialization
\* of the filtered table of that pass.
C6_DownloadIsFilteredTable ==
    page.stopped = "no" => page.download = to_csv(page.fdf)

(***************************************************************************)
(* Claims about the student dashboards                                     *)
(***************************************************************************)
\* the detected roles of a table, as sets of columns
Identifier(r) == {r.name_col} \ {None}

Grouping(r) == {r.year_col, r.gender_col} \ {None}

Measures(r) == Range(r.subject_cols)

\* a run of the script that got as far as detecting the roles of a table
RolesDetected(name) == script.name = name /\ csv.kind = "csv"

\* C7: in StudentsMain.py and Students_1.py, role detection assigns no column
\* to two roles: the identifier column and the year and gender grouping
\* columns are never among the subject columns, whatever the letter case of
\* the column names.
C7_RolesAreDisjoint ==
    (RolesDetected("StudentsMain") \/ RolesDetected("Students_1")) =>
        /\ Identifier(screen.roles) \cap Measures(screen.roles) = {}
        /\ Grouping(screen.roles) \cap Measures(screen.roles) = {}

\* the part of C7 about Students_1.py, which compares the reserved names in
\* lowercase
C7_RolesAreDisjointInStudents1 ==
    RolesDetected("Students_1") =>
        /\ Identifier(screen.roles) \cap Measures(screen.roles) = {}
        /\ Grouping(screen.roles) \cap Measures(screen.roles) = {}

\* the positions of the topper tables among the sections on the screen
TopperTables ==
    {s \in 1..Len(screen.sections) :
        screen.sections[s].name \in {"toppers_subject", "toppers_overall"}}

\* the measure a topper table ranks, for every row of the table on the screen
Measure(s) ==
    [i \in 1..Len(screen.df) |->
        IF screen.sections[s].name = "toppers_overall" THEN screen.pct[i]
        ELSE FMark(controls.b, screen.df[i][controls.b])]

\* the rows of year yr that hold the largest present measure of that year
Best(s, yr) ==
    LET grp == {i \in 1..Len(screen.df) :
                   screen.df[i][screen.roles.year_col] = yr /\ ~FIsNaN(Measure(s)[i])}
    IN  {i \in grp : \A j \in grp : ~FGt(Measure(s)[j], Measure(s)[i])}

\* the entries of the topper tables on the screen whose year has a tie for
\* the maximum: <<table, entry>>
TiedEntries ==
    {e \in UNION {{<<s, k>> : k \in 1..Len(screen.sections[s].data)} : s \in TopperTables} :
        Cardinality(Best(e[1], screen.sections[e[1]].data[e[2]].Year)) >= 2}

\* the entry names the first row, in source order, among the tied ones
NamesFirst(e) ==
    LET entry == screen.sections[e[1]].data[e[2]]
    IN  entry.Top = screen.df[SetMin(Best(e[1], entry.Year))][screen.roles.name_col]

\* the maximum of the year of an entry
MaxOf(e) ==
    LET entry == screen.sections[e[1]].data[e[2]]
    IN  Measure(e[1])[SetMin(Best(e[1], entry.Year))]

\* C8 as stated: when two or more rows of a year share the maximum of the
\* measure, the topper table names the first of them in source order and
\* reports that maximum as the score.
C8_TieGoesToFirstWithMaximum ==
    \A e \in TiedEntries :
        /\ NamesFirst(e)
        /\ screen.sections[e[1]].data[e[2]].Score = MaxOf(e)

\* C8: when two or more rows of a year share the maximum of the measure, the
\* topper table names the first of them in source order; the score reported is
\* that maximum in StudentsMain.py, and that maximum rounded to two decimals
\* in Students_1.py.
C8_TieGoesToFirst ==
    \A e \in TiedEntries :
        /\ NamesFirst(e)
        /\ screen.sections[e[1]].data[e[2]].Score
              = IF script.name = "Students_1" THEN round2(MaxOf(e)) ELSE MaxOf(e)

\* Ben and Asha tied on Math in 2001, Ben first in the file: both scripts name Ben
C8_Witness ==
    /\ TiedEntries # {}
    /\ Len(screen.df) = 2
    /\ screen.df[1][screen.roles.name_col] = "Ben"
    /\ screen.df[2][screen.roles.name_col] = "Asha"
    /\ \A e \in TiedEntries : screen.sections[e[1]].data[e[2]].Top = "Ben"

\* m is the arithmetic mean of the present values among vals[i], i in S (NaN
\* when none is present); values in units of 1/MarkScale
IsMeanOf(m, vals, S) ==
    LET have == {i \in S : ~isnan(vals[i])}
    IN  IF have = {} THEN FIsNaN(m)
        ELSE /\ ~FIsNaN(m)
             /\ m.num * (Cardinality(have) * MarkScale) = SumOver(vals, have) * m.den

\* a table of yearly means t of column col is the mean per year of the rows
YearlyMeansOf(t, rows, year_col, col) ==
    /\ {t[k].Year : k \in 1..Len(t)} = Present(rows, year_col)
    /\ \A k \in 1..Len(t) :
         IsMeanOf(t[k].Average, [i \in 1..Len(rows) |-> Units(col, rows[i][col])],
                  {i \in 1..Len(rows) : rows[i][year_col] = t[k].Year})

\* the chart of yearly means is on the screen
MeanChartShown(name, mode, section) ==
    /\ script.name = name
    /\ controls.mode = mode
    /\ screen.sections # <<>>
    /\ screen.sections[1].name = section

\* C9: every mean shown per grouping key (per subject in trial.py, per year in
\* the Subjects views of StudentsMain.py and students.py) is the arithmetic
\* mean of the column over exactly the rows with that key, a missing value not
\* being counted; every key of the rows has its mean.
C9_MeanIsGroupMean ==
    /\ (page.stopped = "no" /\ page.fdf # <<>>) =>
          /\ DOMAIN page.avg_by_subj = PresentText(page.fdf, "Subject")
          /\ \A s \in DOMAIN page.avg_by_subj :
               IsMeanOf(page.avg_by_subj[s],
                        [i \in 1..Len(page.fdf) |-> page.fdf[i].Marks],
                        {i \in 1..Len(page.fdf) : page.fdf[i].Subject = s})
    /\ MeanChartShown("StudentsMain", "Subjects", "chart") =>
          YearlyMeansOf(screen.sections[1].data, screen.df, screen.roles.year_col, controls.b)
    /\ MeanChartShown("students", "Subjects", "average_chart") =>
          /\ DOMAIN screen.sections[1].data = controls.multi
          /\ \A s \in controls.multi :
               YearlyMeansOf(screen.sections[1].data[s], screen.df, "Year", s)

\* Science in 2001 with one mark of 70 and one missing: the mean shown is 70
C9_Witness ==
    /\ MeanChartShown("StudentsMain", "Subjects", "chart")
    /\ controls.b = "Science"
    /\ Len(screen.df) = 2
    /\ screen.df[1]["Science"] = 70000
    /\ isnan(screen.df[2]["Science"])
    /\ screen.sections[1].data = <<[Year |-> 2001, Average |-> FInt(70)]>>

\* the file the script reads cannot be read: an unparseable upload, or no
\* bundled file when nothing is uploaded (students.py)
ReadFails ==
    \/ csv = BadCsv
    \/ script.name = "students" /\ csv = NoCsv /\ script.bundled.kind # "csv"

\* C10: in every script that reads a file, a read or parse failure gives a
\* message followed by the default table (trial.py) or by a halt of the pass;
\* no exception goes uncaught and no section runs without a table.
C10_ReadFailureIsHandled ==
    /\ (script.name = "none" /\ up = BadFile) =>
          /\ \E i \in 1..Len(page.msgs) : page.msgs[i] = "error: could not read CSV"
          /\ page.df = DEMO_DF
    /\ (script.name \in {"StudentsMain", "Students_1", "students"} /\ ReadFails) =>
          /\ screen.exception = ""
          /\ screen.msgs # <<>>
          /\ screen.stopped # ""
          /\ screen.sections = <<>>

\* the part of C10 that holds: trial.py falls back to the demo table and
\* StudentsMain.py halts with a message
C10_HandledInTrialAndStudentsMain ==
    /\ (script.name = "none" /\ up = BadFile) =>
          /\ \E i \in 1..Len(page.msgs) : page.msgs[i] = "error: could not read CSV"
          /\ page.df = DEMO_DF
    /\ (script.name = "StudentsMain" /\ csv = BadCsv) =>
          /\ screen.exception = ""
          /\ screen.msgs # <<>>
          /\ screen.stopped # ""
          /\ screen.sections = <<>>

(***************************************************************************)
(* C11: the role guards of the views of StudentsMain.py                    *)
(***************************************************************************)
\* whether a role was detected
Detected(role) ==
    IF role = "subject_cols" THEN screen.roles.subject_cols # <<>>
    ELSE screen.roles[role] # None

\* the roles the computations of a view read: the charts group by year (and
\* gender), the topper tables of every view read the name column
ViewRoles(mode) ==
    IF mode = "Gender" THEN {"name_col", "year_col", "gender_col", "subject_cols"}
    ELSE {"name_col", "year_col", "subject_cols"}

\* the roles the computation of one section reads
SectionRoles(mode, name) ==
    IF name \in {"toppers_subject", "toppers_overall"} THEN {"name_col", "year_col", "subject_cols"}
    ELSE IF mode = "Students" THEN {"name_col", "year_col", "subject_cols"}
    ELSE IF mode = "Subjects" THEN {"year_col", "subject_cols"}
    ELSE {"year_col", "gender_col", "subject_cols"}

\* a view of StudentsMain.py ran on a table in which a role it reads is missing
ViewLacksRole ==
    /\ script.name = "StudentsMain" /\ csv.kind = "csv" /\ controls.rendered
    /\ \E role \in ViewRoles(controls.mode) : ~Detected(role)

\* C11 as stated: in StudentsMain.py, when a role the computations of the
\* view read was not detected, the view stops with a message: nothing is
\* raised, and no section that reads the missing role is computed.
C11_ViewStopsWhenRoleMissing ==
    ViewLacksRole =>
        /\ screen.exception = ""
        /\ screen.stopped # ""
        /\ \A k \in 1..Len(screen.sections) :
               \A role \in SectionRoles(controls.mode, screen.sections[k].name) : Detected(role)

(***************************************************************************)
(* C12: the none placeholders                                              *)
(***************************************************************************)
\* the prompts of the three scripts
InfoPrompts ==
    {"info: Welcome! Please select a class from the sidebar to continue",
     "info: Now pick a Subject from the sidebar to see results",
     "info: Use the sidebar to select a Student and a Subject",
     "info: Select a student in the sidebar to continue",
     "info: Select Overall Percentage or a Subject to see a plot",
     "info: Select a subject in the sidebar to continue",
     "info: Select a gender or enable Compare"}

\* the pass rendered its selectboxes and a selection it requires is still at
\* the placeholder
RequiredAtPlaceholder ==
    \/ script.name = "03" /\ (controls.a = NonePick \/ controls.b = NonePick)
    \/ /\ script.name = "Students_1" /\ controls.b_opts # {}
       /\ (controls.a = PickNone \/ controls.b = PickNone)
    \/ /\ script.name = "StudentsMain" /\ controls.b_opts # {}
       /\ \/ controls.mode = "Students" /\ (controls.a = PickNone \/ controls.b = PickNone)
          \/ controls.mode = "Subjects" /\ controls.b = PickNone
          \/ controls.mode = "Gender"
               /\ (controls.b = PickNone \/ (~controls.flag /\ controls.a = PickNone))

\* the metrics on the screen of 03.py
MetricsShown ==
    {k \in 1..Len(screen.sections) : screen.sections[k].name = "metrics"}

\* C12: in 03.py, Students_1.py and StudentsMain.py, a pass in which a
\* required selection is at its placeholder shows an info prompt and stops
\* with no metric, chart or topper table; 03.py never fails and computes its
\* metrics only for a subject that is a column of the table of the class now
\* selected.
C12_PlaceholderStopsWithPrompt ==
    /\ RequiredAtPlaceholder =>
          /\ screen.exception = ""
          /\ screen.stopped = "prompt"
          /\ screen.msgs # <<>> /\ screen.msgs[Len(screen.msgs)] \in InfoPrompts
          /\ screen.sections = <<>>
    /\ script.name = "03" =>
          /\ screen.exception = ""
          /\ \A k \in MetricsShown :
                /\ screen.sections[k].data.cls = controls.a
                /\ screen.sections[k].data.subject
                      \in Range(class_data[controls.a].cols) \ {"Student"}

\* 03.py with a class chosen and the subject at its placeholder: the prompt
C12_Witness ==
    /\ script.name = "03" /\ controls.a = "Class 11" /\ controls.b = NonePick
    /\ screen.stopped = "prompt" /\ screen.sections = <<>>

(***************************************************************************)
(* C13: the letter case of the column names                                *)
(***************************************************************************)
\* the capitalised spelling of the three required column names
Capitalised(c) ==
    CASE c = "name" -> "Name"
      [] c = "class" -> "Class"
      [] c = "year" -> "Year"
      [] OTHER -> c

\* the same table with name, class, year spelled Name, Class, Year
CapitalisedFile(f) ==
    [kind |-> f.kind,
     cols |-> [i \in 1..Len(f.cols) |-> Capitalised(f.cols[i])],
     rows |-> [i \in 1..Len(f.rows) |->
                  [c \in {Capitalised(d) : d \in Range(f.cols)} |->
                      f.rows[i][CHOOSE d \in Range(f.cols) : Capitalised(d) = c]]]]

\* C13 as stated: in every student dashboard the table whose columns are
\* spelled name, class, year is accepted whenever the table spelled Name,
\* Class, Year is, and gets the same roles and the same measure columns.
C13_DetectionIgnoresCase ==
    (script.name \in {"StudentsMain", "Students_1", "students"} /\ csv.kind = "csv") =>
        LET other == Pass(script, CapitalisedFile(csv), controls).screen
        IN  /\ (screen.stopped = "schema error") = (other.stopped = "schema error")
            /\ Capitalised(screen.roles.name_col) = other.roles.name_col
            /\ Capitalised(screen.roles.year_col) = other.roles.year_col
            /\ screen.roles.gender_col = other.roles.gender_col
            /\ [i \in 1..Len(screen.roles.subject_cols) |-> Capitalised(screen.roles.subject_cols[i])]
                  = other.roles.subject_cols

\* Students_1.py lowercases every name it compares: there the claim holds
C13_IgnoresCaseInStudents1 ==
    script.name = "Students_1" => C13_DetectionIgnoresCase

(***************************************************************************)
(* C14: the derived overall percentage                                     *)
(***************************************************************************)
\* the name of the derived column of the script
DerivedName == IF script.name = "students" THEN "Percentage" ELSE "_OverallPct"

\* a pass of students.py or StudentsMain.py computed the derived column
DerivedComputed ==
    \/ /\ script.name = "students" /\ screen.exception = ""
       /\ screen.stopped \notin {"no csv", "schema error"}
    \/ /\ script.name = "StudentsMain" /\ csv.kind = "csv"
       /\ screen.roles.subject_cols # <<>>

\* the table the derived column was computed on
DerivedInput ==
    IF script.name = "students" THEN load_data(csv, script.bundled).df.rows
    ELSE IF screen.roles.year_col # None THEN clean_year(csv.rows, screen.roles.year_col)
    ELSE csv.rows

\* a cell as a value of one shape, whatever it holds: a float of the derived
\* column, a number of a numeric column, or text
FloatCell(f) == [kind |-> "float", text |-> "", num |-> f.num, den |-> f.den]

InputCell(c, v) ==
    IF c \in NumericNames THEN [kind |-> "number", text |-> "", num |-> v, den |-> 1]
    ELSE [kind |-> "text", text |-> v, num |-> 0, den |-> 0]

OutputCell(c, v) == IF c = DerivedName THEN FloatCell(v) ELSE InputCell(c, v)

\* C14 as stated: computing the derived percentage only adds a column: the
\* output has the rows of the input, every column of the input holds in the
\* output the values it held in the input, and the derived value of a row is
\* the mean of the present values of the row's measure columns.
C14_DerivedColumnOnlyAdded ==
    DerivedComputed =>
        /\ Len(screen.df) = Len(DerivedInput)
        /\ \A i \in 1..Len(DerivedInput) :
              /\ DOMAIN screen.df[i] = DOMAIN DerivedInput[i] \cup {DerivedName}
              /\ \A c \in DOMAIN DerivedInput[i] :
                    OutputCell(c, screen.df[i][c]) = InputCell(c, DerivedInput[i][c])
              /\ screen.df[i][DerivedName]
                    = IF screen.roles.subject_cols = <<>> THEN FNaN
                      ELSE RowMean(DerivedInput[i], screen.roles.subject_cols)

\* the frame holds for every table without a column named like the derived one
C14_AddedWhenNameIsFree ==
    (DerivedComputed /\ DerivedName \notin Range(csv.cols)) => C14_DerivedColumnOnlyAdded

(***************************************************************************)
(* C15: a pass is a function of its inputs                                 *)
(***************************************************************************)
\* the page of trial.py is the page that a pass on the same file and the
\* same selections shows when the cache of to_csv_bytes is empty (a server
\* just started, or the cache cleared)
TrialPageFromInputs == ~test3.on => page = RenderPass(up, widgets, <<>>).page

\* a rerun of test-3.py with the same chart type shows the same table and
\* the same chart series
Test3SameOutput == (test3.on /\ test3'.view = test3.view) => test3' = test3

\* C15 as stated: two passes with the same table source and the same widget
\* selections show the same tables, metrics, chart series and download
\* payload, whatever interactions came before.
C15_PassIsFunctionOfInputs == [](TrialPageFromInputs) /\ [][Test3SameOutput]_vars

(***************************************************************************)
(* C18: the guards of Stock.py                                             *)
(***************************************************************************)
\* what fetch_prices returned for the selected ticker
Fetched == stock.cache[stock.sel.ticker]

\* the fetch returned a table for the ticker and for the index, both with
\* the Date and Close columns
BothUsable ==
    /\ {stock.sel.ticker, NIFTY_SYMBOL} \subseteq DOMAIN Fetched
    /\ \A t \in {stock.sel.ticker, NIFTY_SYMBOL} : {"Date", "Close"} \subseteq Fetched[t].columns

\* add_indicators ran in the pass
IndicatorsComputed == stock.page.windows # {} \/ "Returns" \in stock.page.table.columns

\* C18: in Stock.py the indicators, the index join and the charts are computed
\* only when fetch_prices returned a table for the ticker and for the index
\* and both have the Date and Close columns; otherwise the pass shows an
\* error message and stops before add_indicators.
C18_IndicatorsOnlyOnFetchedTables ==
    stock.on =>
        /\ IndicatorsComputed => BothUsable
        /\ ~BothUsable =>
              /\ stock.page.exception = ""
              /\ stock.page.stopped \in {"fetch error", "columns error"}
              /\ stock.page.msgs # <<>>
              /\ ~IndicatorsComputed
              /\ stock.page.kpis = <<>> /\ stock.page.sections = <<>>

\* the index came without its Close column: the pass stops with the message
C18_Witness ==
    /\ stock.on
    /\ {stock.sel.ticker, NIFTY_SYMBOL} \subseteq DOMAIN Fetched
    /\ "Close" \notin Fetched[NIFTY_SYMBOL].columns
    /\ "Close" \in Fetched[stock.sel.ticker].columns
    /\ stock.page.stopped = "columns error"

(***************************************************************************)
(* C19: the moving-average windows of Stock.py                             *)
(***************************************************************************)
\* the price charts on the screen
PriceCharts ==
    {k \in 1..Len(stock.page.sections) : stock.page.sections[k].name = "Price + MAs"}

\* every SMA column of a price chart is a column of the enriched table
SMAColumnsExist ==
    \A k \in PriceCharts : stock.page.sections[k].data \subseteq stock.page.table.columns

\* C19 as stated: the windows passed to add_indicators are between 1 and 3,
\* whatever the user selects, and every SMA column shown in the price chart
\* exists in the enriched table.
C19_OneToThreeWindows ==
    (stock.on /\ IndicatorsComputed) =>
        /\ Cardinality(stock.page.windows) >= 1
        /\ Cardinality(stock.page.windows) <= 3
        /\ stock.page.exception # "KeyError"
        /\ SMAColumnsExist

\* what the code does keep: at least one window, and the charted SMA columns
\* exist
C19_AtLeastOneWindow ==
    (stock.on /\ IndicatorsComputed) =>
        /\ Cardinality(stock.page.windows) >= 1
        /\ stock.page.exception # "KeyError"
        /\ SMAColumnsExist

(***************************************************************************)
(* C17: the year-keyed aggregates                                          *)
(***************************************************************************)
\* the table t has one entry per year present in the rows, in strictly
\* ascending order of the year
OneEntryPerYear(t, rows, year_col) ==
    /\ \A k \in 1..(Len(t) - 1) : t[k].Year < t[k + 1].Year
    /\ {t[k].Year : k \in 1..Len(t)} = Present(rows, year_col)

\* the rows the year-keyed aggregate of section k was computed from; <<>>
\* with year column None for a section that is no such aggregate
AggregatedRows(k) ==
    LET name == screen.sections[k].name
    IN  IF name = "toppers_overall" THEN screen.df
        ELSE IF name = "toppers_subject" THEN dropna(screen.df, controls.b)
        ELSE IF name = "chart" /\ script.name = "StudentsMain" /\ controls.mode = "Subjects"
        THEN screen.df
        ELSE IF name = "chart" /\ script.name = "StudentsMain" /\ controls.mode = "Gender"
                  /\ ~controls.flag
        THEN rows_of(screen.df, screen.roles.gender_col, controls.a)
        ELSE <<>>

\* the sections on the screen that are year-keyed aggregates
YearKeyed ==
    {k \in 1..Len(screen.sections) :
        \/ screen.sections[k].name \in {"toppers_overall", "toppers_subject"}
        \/ /\ screen.sections[k].name = "chart" /\ script.name = "StudentsMain"
           /\ (controls.mode = "Subjects" \/ (controls.mode = "Gender" /\ ~controls.flag))}

\* C17: every year-keyed aggregate on the screen (the yearly mean series and
\* the per-year topper tables of StudentsMain.py and Students_1.py, the yearly
\* averages of students.py) has exactly one entry per distinct year present
\* in the rows it was computed from, in strictly ascending order of the year.
C17_OneEntryPerYearAscending ==
    /\ \A k \in YearKeyed :
          OneEntryPerYear(screen.sections[k].data, AggregatedRows(k), screen.roles.year_col)
    /\ MeanChartShown("students", "Subjects", "average_chart") =>
          \A s \in controls.multi :
              OneEntryPerYear(screen.sections[1].data[s], screen.df, "Year")

\* a table whose rows come with the later year first: the yearly mean series
\* has the two years in ascending order
C17_Witness ==
    /\ MeanChartShown("StudentsMain", "Subjects", "chart")
    /\ Len(screen.df) = 2
    /\ screen.df[1][screen.roles.year_col] = 2001
    /\ screen.df[2][screen.roles.year_col] = 2000
    /\ Len(screen.sections[1].data) = 2
    /\ screen.sections[1].data[1].Year = 2000

(***************************************************************************)
(* C20: the priority of the candidate names in detect_columns              *)
(***************************************************************************)
\* the place of a lowercase name in a candidate list
PlaceIn(cands, k) == SetMin({i \in 1..Len(cands) : cands[i] = k})

\* col is the pick for a role among the columns cols: a column whose
\* lowercase name is the earliest candidate that names any column, and None
\* exactly when no candidate names a column
PickedByPriority(col, cols, cands) ==
    LET named == {c \in Range(cols) : lower(c) \in Range(cands)}
    IN  IF named = {} THEN col = None
        ELSE /\ col \in named
             /\ \A c \in named : PlaceIn(cands, lower(col)) <= PlaceIn(cands, lower(c))

\* C20: detect_columns of StudentsMain.py returns as identifier a column of
\* the table whose lowercase name is in the candidate list, chosen by the
\* order of the candidates ('name' before 'student' before 'student_name')
\* and not by the position of the column, and None exactly when no column
\* is named by a candidate; likewise for the year and the gender.
C20_PickedByCandidatePriority ==
    (script.name = "StudentsMain" /\ csv.kind = "csv") =>
        /\ PickedByPriority(screen.roles.name_col, csv.cols, <<"name", "student", "student_name">>)
        /\ PickedByPriority(screen.roles.year_col, csv.cols, <<"year", "class_year", "grade_year">>)
        /\ PickedByPriority(screen.roles.gender_col, csv.cols, <<"gender", "sex">>)

\* student_name is the first column and Name the second: Name is the identifier
C20_Witness ==
    /\ script.name = "StudentsMain" /\ csv.kind = "csv"
    /\ csv.cols[1] = "student_name" /\ csv.cols[2] = "Name"
    /\ screen.roles.name_col = "Name"
    /\ screen.roles.gender_col = None

(***************************************************************************)
(* C16: after a load or schema message                                     *)
(***************************************************************************)
\* the messages of students.py and StudentsMain.py about the load of the
\* table and about its schema
LoadOrSchemaMessages ==
    {"error: No CSV found. Please upload your data file",
     "error: Missing required columns",
     "warning: No subject columns detected (numeric, non-reserved)",
     "error: Could not read CSV",
     "warning: I'm expecting"}

\* the last pass showed one of them
LoadOrSchemaMessageShown ==
    /\ script.name \in {"students", "StudentsMain"}
    /\ Range(screen.msgs) \cap LoadOrSchemaMessages # {}

\* the last pass of Stock.py showed one of its two error messages
StockErrorShown == stock.on /\ stock.page.stopped \in {"fetch error", "columns error"}

\* nothing was rendered after the message
NothingRenderedAfter ==
    /\ LoadOrSchemaMessageShown => screen.sections = <<>>
    /\ StockErrorShown => (stock.page.kpis = <<>> /\ stock.page.sections = <<>>)

\* the pass that follows a change of the uploaded file is a run of the whole
\* script on the new file and the widget state: nothing of the page with the
\* message is kept
NextPassFromScratch ==
    (LoadOrSchemaMessageShown /\ csv' # csv) => screen' = Pass(script, csv', controls).screen

\* C16 as stated: once a pass has shown a data-load or schema error or
\* warning, no further section of that pass is rendered; the pass that
\* follows a change of the input starts from scratch and renders what the
\* new input gives.
C16_MessageEndsThePass == [](NothingRenderedAfter) /\ [][NextPassFromScratch]_vars

\* what the code keeps: the error messages of Stock.py end the pass, and
\* nothing of a page is kept for the pass on another file
C16_StockErrorsEndThePass ==
    [](StockErrorShown => (stock.page.kpis = <<>> /\ stock.page.sections = <<>>))
        /\ [][NextPassFromScratch]_vars

(***************************************************************************)
(* C21: the per-year overall topper table of StudentsMain.py               *)
(***************************************************************************)
\* the Students view of StudentsMain.py passed its role checks and both
\* selections, so the pass went on to the overall topper table (lines 168-172)
OverallTopperReached ==
    /\ script.name = "StudentsMain" /\ csv.kind = "csv" /\ controls.rendered
    /\ controls.mode = "Students"
    /\ Detected("name_col") /\ Detected("year_col") /\ Detected("subject_cols")
    /\ controls.a # PickNone /\ controls.b # PickNone

\* the years of the table that have a row with a defined overall percentage
YearsWithOverall ==
    {screen.df[i][screen.roles.year_col] :
        i \in {j \in 1..Len(screen.df) : ~FIsNaN(screen.pct[j])}}

\* the overall topper tables on the screen
OverallToppers ==
    {k \in 1..Len(screen.sections) : screen.sections[k].name = "toppers_overall"}

\* some year of the table has rows, and none of them has a measure value
YearWithoutMarks ==
    \E i \in 1..Len(screen.df) :
        screen.df[i][screen.roles.year_col] \notin YearsWithOverall

\* C21 as stated: in StudentsMain.py the overall topper table is produced
\* without raising for every table that passes the role checks of the view,
\* also when every row of some year has all its measure values missing, and
\* it has one row for each year with a defined overall percentage.  A section
\* is on the screen only when its computation did not raise.
C21_OverallTopperNeverRaises ==
    OverallTopperReached =>
        \E k \in OverallToppers :
            LET t == screen.sections[k].data
            IN  /\ {t[n].Year : n \in 1..Len(t)} = YearsWithOverall
                /\ Len(t) = Cardinality(YearsWithOverall)

\* what does hold: when every year of a table with rows has a defined overall
\* percentage, the table is produced and has one row for each of the years
C21_ProducedWhenEveryYearHasMarks ==
    (OverallTopperReached /\ screen.df # <<>> /\ ~YearWithoutMarks) =>
        \E k \in OverallToppers :
            LET t == screen.sections[k].data
            IN  /\ {t[n].Year : n \in 1..Len(t)} = YearsWithOverall
                /\ Len(t) = Cardinality(YearsWithOverall)

(***************************************************************************)
(* C22: the columns of the table load_csv returns                          *)
(***************************************************************************)
\* a call of load_csv has ended
LoadDone == call.fn = "load_csv" /\ call.done

\* the known columns that a column of the file is a candidate of
RolesInFile ==
    {role \in Range(Known) :
        \E i \in 1..Len(call.arg.cols) : ColKey(call.arg.cols[i]) \in Candidates(role)}

\* two columns of the file are candidates of the same known column
TwoOfOneRole ==
    \E role \in Range(Known) : \E i, j \in 1..Len(call.arg.cols) :
        /\ i # j
        /\ ColKey(call.arg.cols[i]) \in Candidates(role)
        /\ ColKey(call.arg.cols[j]) \in Candidates(role)

\* the returned table has known columns only, none of them twice, and every
\* known column the file has a candidate of
KnownColumnsOnce ==
    /\ call.out.raised = ""
    /\ Range(call.out.names) \subseteq Range(Known)
    /\ Distinct(call.out.names)
    /\ RolesInFile \subseteq Range(call.out.names)

\* C22 as stated: for any uploaded CSV load_csv returns a table whose column
\* names are a subset of Name, Class, Subject, Marks, Date without duplicates,
\* and a column that matches a candidate appears under its known name, also
\* when two candidates of one role are in the file.
C22_KnownColumnsWithoutDuplicates == LoadDone => KnownColumnsOnce

\* what does hold: files with at most one candidate per known column
C22_HoldsWithOneCandidatePerRole ==
    (LoadDone /\ ~TwoOfOneRole) =>
        /\ KnownColumnsOnce
        /\ \A i \in 1..Len(call.arg.cols) : \A role \in Range(Known) :
               ColKey(call.arg.cols[i]) \in Candidates(role) =>
                   call.out.rows[1][role] = call.arg.rows[1][call.arg.cols[i]]

(***************************************************************************)
(* C23: the filtered table of trial.py                                     *)
(***************************************************************************)
\* the pass of trial.py applied its filters and rendered the KPIs
FiltersApplied == script.name = "none" /\ page.stopped = "no"

\* the positions of the rows of the loaded table that pass the three filters
\* as the widgets show them
PassingRows ==
    {i \in 1..Len(page.df.rows) :
        LET r == page.df.rows[i]
        IN  /\ r.Marks # NaN
            /\ widgets.mark_range[1] * MarkScale <= r.Marks
            /\ r.Marks <= widgets.mark_range[2] * MarkScale
            /\ r.Subject \in widgets.subj_sel
            /\ (widgets.class_sel = "All" \/ r.Class = widgets.class_sel)}

\* the table the pass started from: the rows of the uploaded file, or the
\* bundled demo table when there is no file or it cannot be read
SourceTable ==
    IF up.kind = "csv" THEN [cols |-> Range(up.cols), rows |-> up.rows] ELSE DEMO_DF

\* C23: in trial.py the filtered table holds exactly the rows of the loaded
\* table whose Marks lie in the inclusive slider range, whose Subject is
\* selected and whose Class is the selected class unless that is "All", in
\* source order; the loaded table is still the table the pass started from;
\* the three KPIs show the placeholder exactly when no row passes.
C23_FilteredRowsInSourceOrder ==
    FiltersApplied =>
        /\ page.fdf = [k \in 1..Cardinality(PassingRows) |-> page.df.rows[Sorted(PassingRows)[k]]]
        /\ page.df = SourceTable
        /\ (PassingRows = {}) =>
               (page.kpi.rows = 0 /\ page.kpi.avg = Placeholder
                    /\ page.kpi.highest = Placeholder /\ page.kpi.lowest = Placeholder)
        /\ (PassingRows # {}) =>
               (page.kpi.rows = Cardinality(PassingRows) /\ page.kpi.avg # Placeholder
                    /\ page.kpi.highest # Placeholder /\ page.kpi.lowest # Placeholder)

\* an uploaded table of which a mark on the end of the slider range passes
\* and another row is filtered out
C23_Witness ==
    /\ FiltersApplied /\ up.kind = "csv"
    /\ PassingRows # {} /\ Cardinality(PassingRows) < Len(page.df.rows)
    /\ \E i \in PassingRows : page.df.rows[i].Marks = widgets.mark_range[2] * MarkScale

(***************************************************************************)
(* C24: the running maximum and the drawdown of add_indicators             *)
(***************************************************************************)
\* a call of add_indicators has returned
IndicatorsDone == call.fn = "add_indicators" /\ call.done

\* row i of the returned table sets a new peak of the closing price
NewPeak(i) == \A j \in 1..(i - 1) : FGt(call.out.Close[i], call.out.Close[j])

\* C24: add_indicators leaves its input as it was (the input has no indicator
\* column and the result carries the input's dates and prices), and for
\* positive closing prices CumMax never decreases and is at least Close in
\* every row, so Drawdown is at most 0 in every row and exactly 0 in the
\* first row and in every row that sets a new peak.
C24_DrawdownNeverPositive ==
    IndicatorsDone =>
        LET d == call.out
            n == Len(call.arg.Close)
        IN  /\ call.arg.columns = {"Date"} \cup Fields
            /\ DOMAIN call.arg = {"columns", "Date", "Close"}
            /\ d.Date = call.arg.Date /\ d.Close = call.arg.Close
            /\ Len(d.CumMax) = n /\ Len(d.Drawdown) = n
            /\ \A i \in 1..n :
                   /\ ~FLt(d.CumMax[i], d.Close[i]) /\ ~FIsNaN(d.CumMax[i])
                   /\ i > 1 => ~FLt(d.CumMax[i], d.CumMax[i - 1])
                   /\ ~FGt(d.Drawdown[i], FInt(0)) /\ ~FIsNaN(d.Drawdown[i])
                   /\ (i = 1 \/ NewPeak(i)) => d.Drawdown[i] = FInt(0)

\* prices that fall below the first price and then set a new peak
C24_Witness ==
    /\ IndicatorsDone /\ Len(call.out.Close) >= 3
    /\ FLt(call.out.Drawdown[2], FInt(0))
    /\ NewPeak(3) /\ call.out.Drawdown[3] = FInt(0)

(***************************************************************************)
(* C25: norm_to_first                                                      *)
(***************************************************************************)
\* a call of norm_to_first has returned
NormDone == call.fn = "norm_to_first" /\ call.done

\* the series has a first value that can be divided by
UsableFirst == call.arg # <<>> /\ ~FIsNaN(call.arg[1]) /\ ~FEq(call.arg[1], FInt(0))

\* the quotient of two defined values, the second not zero
Quotient(a, b) == Frac(a.num * b.den, a.den * b.num)

\* C25: norm_to_first never divides by zero: for a series that is not empty
\* and whose first value is defined and not zero the result starts with 1
\* and every value is the input divided by the first value (undefined where
\* the input is); for an empty series, or one whose first value is zero or
\* missing, every value of the result is undefined.
C25_NormalisedOrUndefined ==
    NormDone =>
        /\ Len(call.out) = Len(call.arg)
        /\ UsableFirst =>
               /\ call.out[1] = FInt(1)
               /\ \A i \in 1..Len(call.arg) :
                      call.out[i] = IF FIsNaN(call.arg[i]) THEN FNaN
                                    ELSE Quotient(call.arg[i], call.arg[1])
        /\ ~UsableFirst => \A i \in 1..Len(call.out) : FIsNaN(call.out[i])

\* a series that starts with zero and goes on with defined values, normalised
C25_Witness ==
    /\ NormDone /\ Len(call.arg) >= 2
    /\ FEq(call.arg[1], FInt(0)) /\ ~FIsNaN(call.arg[2])
    /\ FIsNaN(call.out[2])

=============================================================================
